---------------------------- MODULE Spec2Model ----------------------------
(***************************************************************************)
(* Model of the run-tracking backend (src/backend): the Run and UserStats  *)
(* tables, the run handlers of main.py, and the derived statistics of      *)
(* crud.py and achievements.py.                                            *)
(*                                                                         *)
(* Time is counted in whole days; day 0 is 2026-01-01 (a Thursday), the    *)
(* tracking epoch of the code.  Week and month boundaries, and the epoch   *)
(* itself, all fall on midnight, so the day is the resolution they need.   *)
(* Distances are the integers 3, 5, ... standing for 3.0, 5.0, ... km.     *)
(* Free-text notes have no effect on any modelled result and are left out  *)
(* of the rows.                                                            *)
(***************************************************************************)
EXTENDS Integers, Sequences, FiniteSets, TLC

VARIABLES
    runs,         \* the runs table: a set of Run rows
    next_run_id,  \* next autoincrement id of the runs table
    user_stats,   \* the user_stats table: a sequence of rows, in insertion order
    step_entries, \* the step_entries table: a set of StepEntry rows
    now,          \* datetime.now(), as a day number
    resp,         \* what the last handler returned
    weights,      \* the weights table: a set of Weight rows
    next_entry_id,\* next autoincrement ids of the weights and step_entries tables
    user_goals,   \* the user_goals table: a set of UserGoals rows, one per user at most
    users,        \* the users table: a set of User rows
    circles,      \* the circles table: a set of Circle rows
    memberships,  \* the circle_memberships table: a set of CircleMembership rows
    next_circle_id, \* next autoincrement id of the circles and memberships tables
    joins,        \* the join requests being handled, by request number
    weekly_plans, \* WeeklyPlan rows
    creates       \* the create requests between two commits, by request number

\* the tables the run handlers never touch
other_tables == <<weights, next_entry_id, user_goals, users, circles, memberships,
                  next_circle_id, joins, weekly_plans, creates>>

vars == <<runs, next_run_id, user_stats, step_entries, now, resp, other_tables>>

---------------------------------------------------------------------------
(* Bounds of the model *)

NumWeeks == 4        \* SpecStreak: number of weeks the drawn database spans
MaxRuns == 2         \* Spec: number of run creations
Today == 40          \* Spec: the day the requests are made (2026-02-10)
MaxCircles == 1      \* SpecCircle: number of circles created
MaxEntries == 2      \* SpecEntries: number of weight and of step entries logged
MaxJoins == 2        \* SpecJoinRace: number of join requests handled at once
MaxInFlight == 2     \* SpecStatsRace: number of run creations handled at once

---------------------------------------------------------------------------
(* Values *)

None == 0            \* Python None for a nullable user_id (user ids start at 1)

Users == {1, 2}
Callers == Users \cup {None}

\* a row of the users table; the e-mail is what a token names
UserRow(u) == [id |-> u, email |-> u, handle |-> "", onboarding_complete |-> FALSE]

\* the tables beside runs, user_stats and step_entries, with Users signed up
\* and nothing else stored
OtherTablesEmpty ==
    /\ weights = {}
    /\ next_entry_id = [weights |-> 1, step_entries |-> 1]
    /\ user_goals = {}
    /\ users = {UserRow(u) : u \in Users}
    /\ circles = {}
    /\ memberships = {}
    /\ next_circle_id = 1
    /\ joins = <<>>
    /\ weekly_plans = {}
    /\ creates = <<>>

RUN_DISTANCES ==
    [t \in {"3k", "5k", "10k", "15k", "18k", "21k"} |->
        CASE t = "3k" -> 3 [] t = "5k" -> 5 [] t = "10k" -> 10
          [] t = "15k" -> 15 [] t = "18k" -> 18 [] t = "21k" -> 21]

RunType == {"3k", "5k", "10k", "15k", "20k"}

min_date == 0        \* datetime(2026, 1, 1)

---------------------------------------------------------------------------
(* Small helpers *)

Max(S) == CHOOSE x \in S : \A y \in S : y <= x
Min(S) == CHOOSE x \in S : \A y \in S : x <= y

RECURSIVE SumOver(_, _)
\* sum(f(r) for r in rows), f given as a function on the rows
SumOver(rows, f) ==
    IF rows = {} THEN 0
    ELSE LET r == CHOOSE x \in rows : TRUE
         IN f[r] + SumOver(rows \ {r}, f)

SumKm(rows) == SumOver(rows, [r \in rows |-> r.distance_km])
SumSeconds(rows) == SumOver(rows, [r \in rows |-> r.duration_seconds])

---------------------------------------------------------------------------
(* Calendar *)

\* date.weekday(): Monday = 0 ... Sunday = 6; day 0 is a Thursday
weekday(d) == (d + 3) % 7

\* crud.get_week_boundaries_for_date: <<sunday, saturday>>
get_week_boundaries_for_date(date) ==
    LET days_since_sunday == (weekday(date) + 1) % 7
        sunday == date - days_since_sunday
    IN <<sunday, sunday + 6>>

WeekStart(d) == get_week_boundaries_for_date(d)[1]

\* first day of each month of a 365-day year, counted from its 1 January
MonthOffsets == <<0, 31, 59, 90, 120, 151, 181, 212, 243, 273, 304, 334, 365>>

\* 2025, 2026 and 2027 all have 365 days
YearStartOf(d) == IF d < 0 THEN -365 ELSE IF d < 365 THEN 0 ELSE 365

\* date.month
MonthOf(d) ==
    LET yd == d - YearStartOf(d)
    IN CHOOSE m \in 1..12 : MonthOffsets[m] <= yd /\ yd < MonthOffsets[m + 1]

\* date.replace(day=1, hour=0, ...)
MonthStartOf(d) == YearStartOf(d) + MonthOffsets[MonthOf(d)]

---------------------------------------------------------------------------
(* Streak engine, crud.py *)

\* mutant of is_valid_streak_week: the long-run threshold as a strict bound
is_valid_streak_week_strict(week_runs) ==
    IF Cardinality(week_runs) < 3 THEN FALSE
    ELSE LET long_runs == {r \in week_runs : r.distance_km > 10}
             short_runs == {r \in week_runs : r.distance_km < 10}
         IN Cardinality(long_runs) >= 1 /\ Cardinality(short_runs) >= 2

is_valid_streak_week(week_runs) ==
    IF Cardinality(week_runs) < 3 THEN FALSE
    ELSE LET long_runs == {r \in week_runs : r.distance_km >= 10}
             short_runs == {r \in week_runs : r.distance_km < 10}
         IN Cardinality(long_runs) >= 1 /\ Cardinality(short_runs) >= 2

\* the query of calculate_streaks: runs since the epoch, of the user if given
StreakRuns(db_runs, user_id) ==
    {r \in db_runs : r.completed_at >= min_date
                     /\ (user_id # None => r.user_id = user_id)}

\* weeks_data: the week starts that have a run, and each week's runs
WeekKeys(all_runs) == {WeekStart(r.completed_at) : r \in all_runs}
WeekRuns(all_runs, w) == {r \in all_runs : WeekStart(r.completed_at) = w}

RECURSIVE CurrentStreakLoopOldestFirst(_, _, _, _, _)
\* mutant of CurrentStreakLoop: the weeks visited oldest first
CurrentStreakLoopOldestFirst(all_runs, weeks, current_streak, expected_week, current_week_start) ==
    IF weeks = {} THEN current_streak
    ELSE LET week_start == Min(weeks)
             rest == weeks \ {week_start}
             days_diff == expected_week - week_start
             valid == is_valid_streak_week(WeekRuns(all_runs, week_start))
         IN IF days_diff = 0 \/ (days_diff = 7 /\ current_streak = 0)
            THEN IF valid
                 THEN CurrentStreakLoopOldestFirst(all_runs, rest, current_streak + 1,
                                        week_start - 7, current_week_start)
                 ELSE IF week_start = current_week_start
                 THEN CurrentStreakLoopOldestFirst(all_runs, rest, current_streak,
                                        current_week_start - 7, current_week_start)
                 ELSE current_streak
            ELSE IF days_diff = 7
            THEN IF valid
                 THEN CurrentStreakLoopOldestFirst(all_runs, rest, current_streak + 1,
                                        week_start - 7, current_week_start)
                 ELSE current_streak
            ELSE current_streak

RECURSIVE CurrentStreakLoop(_, _, _, _, _)
\* the loop over sorted_weeks, newest first; weeks is what is left to visit
CurrentStreakLoop(all_runs, weeks, current_streak, expected_week, current_week_start) ==
    IF weeks = {} THEN current_streak
    ELSE LET week_start == Max(weeks)
             rest == weeks \ {week_start}
             days_diff == expected_week - week_start
             valid == is_valid_streak_week(WeekRuns(all_runs, week_start))
         IN IF days_diff = 0 \/ (days_diff = 7 /\ current_streak = 0)
            THEN IF valid
                 THEN CurrentStreakLoop(all_runs, rest, current_streak + 1,
                                        week_start - 7, current_week_start)
                 ELSE IF week_start = current_week_start
                 THEN CurrentStreakLoop(all_runs, rest, current_streak,
                                        current_week_start - 7, current_week_start)
                 ELSE current_streak
            ELSE IF days_diff = 7
            THEN IF valid
                 THEN CurrentStreakLoop(all_runs, rest, current_streak + 1,
                                        week_start - 7, current_week_start)
                 ELSE current_streak
            ELSE current_streak

RECURSIVE LongestStreakLoopAnyGap(_, _, _, _, _)
\* mutant of LongestStreakLoop: a valid week extends the run whatever the gap
LongestStreakLoopAnyGap(all_runs, weeks, longest_streak, temp_streak, prev_week_start) ==
    IF weeks = {} THEN longest_streak
    ELSE LET week_start == Min(weeks)
             rest == weeks \ {week_start}
         IN IF is_valid_streak_week(WeekRuns(all_runs, week_start))
            THEN LET t == IF prev_week_start = <<>> THEN 1 ELSE temp_streak + 1
                 IN LongestStreakLoopAnyGap(all_runs, rest,
                        IF t > longest_streak THEN t ELSE longest_streak,
                        t, <<week_start>>)
            ELSE LongestStreakLoopAnyGap(all_runs, rest, longest_streak, 0, <<>>)

RECURSIVE LongestStreakLoop(_, _, _, _, _)
\* the loop over reversed(sorted_weeks), oldest first; prev_week_start is
\* <<>> for None and <<w>> for a week start
LongestStreakLoop(all_runs, weeks, longest_streak, temp_streak, prev_week_start) ==
    IF weeks = {} THEN longest_streak
    ELSE LET week_start == Min(weeks)
             rest == weeks \ {week_start}
         IN IF is_valid_streak_week(WeekRuns(all_runs, week_start))
            THEN LET t == IF prev_week_start = <<>> THEN 1
                          ELSE IF week_start - prev_week_start[1] = 7
                          THEN temp_streak + 1
                          ELSE 1
                 IN LongestStreakLoop(all_runs, rest,
                        IF t > longest_streak THEN t ELSE longest_streak,
                        t, <<week_start>>)
            ELSE LongestStreakLoop(all_runs, rest, longest_streak, 0, <<>>)

\* <<current_streak, longest_streak>>
calculate_streaks(db_runs, user_id, now_) ==
    LET all_runs == StreakRuns(db_runs, user_id)
        weeks == WeekKeys(all_runs)
        current_week_start == WeekStart(now_)
    IN IF all_runs = {} THEN <<0, 0>>
       ELSE <<CurrentStreakLoop(all_runs, weeks, 0, current_week_start,
                                current_week_start),
              LongestStreakLoop(all_runs, weeks, 0, 0, <<>>)>>


---------------------------------------------------------------------------
(* Stats, crud.py *)

\* db.query(UserStats).first() and the insert of a zero row when there is none
get_or_create_stats(stats_rows) ==
    IF stats_rows = <<>> THEN <<[total_runs |-> 0, total_km |-> 0]>>
    ELSE stats_rows

\* mutant of update_stats_after_run: the distance is not added
update_stats_after_run_count_only(stats_rows, distance_km) ==
    LET rows == get_or_create_stats(stats_rows)
    IN [rows EXCEPT ![1] = [total_runs |-> rows[1].total_runs + 1,
                            total_km |-> rows[1].total_km]]

update_stats_after_run(stats_rows, distance_km) ==
    LET rows == get_or_create_stats(stats_rows)
    IN [rows EXCEPT ![1] = [total_runs |-> rows[1].total_runs + 1,
                            total_km |-> rows[1].total_km + distance_km]]

\* f"{n:02d}"
Pad2(n) == IF n < 10 THEN "0" \o ToString(n) ELSE ToString(n)

\* f"{mins}:{secs:02d}"
FormatMinSec(mins, secs) == ToString(mins) \o ":" \o Pad2(secs)

\* mutant of base_query: the runs of every user
base_query_unscoped(db_runs, user_id) == db_runs

\* base_query() of get_stats_summary and get_goals_progress
base_query(db_runs, user_id) ==
    {r \in db_runs : user_id # None => r.user_id = user_id}

\* mutant of StatsTotals: the totals read from the UserStats counter
StatsTotalsCached(db_runs, stats_rows, user_id) ==
    LET stats == get_or_create_stats(stats_rows)[1]
    IN <<stats.total_runs, stats.total_km>>

\* <<total_runs, total_km>> of get_stats_summary: all runs from 2026 on
StatsTotals(db_runs, stats_rows, user_id) ==
    LET all_runs == {r \in base_query(db_runs, user_id) : r.completed_at >= min_date}
    IN <<Cardinality(all_runs), SumKm(all_runs)>>

\* mutant of AveragePace: no pace is shown as dashes
AveragePaceDashes(all_runs, total_km, total_seconds) ==
    IF all_runs # {} /\ total_km > 0
    THEN FormatMinSec(total_seconds \div (total_km * 60),
                      (total_seconds \div total_km) % 60)
    ELSE "--:--"

\* f"{avg_mins}:{avg_secs:02d}" of total_seconds / total_km, or "0:00"
AveragePace(all_runs, total_km, total_seconds) ==
    IF all_runs # {} /\ total_km > 0
    THEN FormatMinSec(total_seconds \div (total_km * 60),
                      (total_seconds \div total_km) % 60)
    ELSE "0:00"

\* the dict get_stats_summary builds from its query results
StatsDict(week_runs, month_runs, all_runs, totals, streaks) ==
    [total_runs |-> totals[1],
     total_km |-> totals[2],
     current_streak |-> streaks[1],
     longest_streak |-> streaks[2],
     average_pace |-> AveragePace(all_runs, totals[2], SumSeconds(all_runs)),
     runs_this_week |-> Cardinality(week_runs),
     km_this_week |-> SumKm(week_runs),
     runs_this_month |-> Cardinality(month_runs),
     km_this_month |-> SumKm(month_runs)]

\* crud.get_stats_summary (its UserStats insert is in the handlers)
get_stats_summary(db_runs, stats_rows, user_id, now_) ==
    StatsDict(
        {r \in base_query(db_runs, user_id) :
            r.completed_at >= WeekStart(now_) /\ r.completed_at >= min_date},
        {r \in base_query(db_runs, user_id) :
            r.completed_at >= MonthStartOf(now_) /\ r.completed_at >= min_date},
        {r \in base_query(db_runs, user_id) : r.completed_at >= min_date},
        StatsTotals(db_runs, stats_rows, user_id),
        calculate_streaks(db_runs, user_id, now_))

\* GET /stats
GetStats(caller) ==
    /\ user_stats' = get_or_create_stats(user_stats)
    /\ resp' = [op |-> "get_stats", user_id |-> caller, status |-> 200,
                body |-> get_stats_summary(runs, user_stats, caller, now)]
    /\ UNCHANGED <<runs, next_run_id, step_entries, now, other_tables>>

---------------------------------------------------------------------------
(* Goals and achievements, achievements.py *)

MONTHLY_GOAL_KM == 100

\* the monthly_goals_hit loop of get_goals_progress: the months 1..now.month
\* of 2026 whose distance reaches the monthly target
MonthlyGoalsHit(db_runs, monthly_target, user_id, now_) ==
    Cardinality({month \in 1..MonthOf(now_) :
        LET m_start == MonthOffsets[month]
            m_end == MonthOffsets[month + 1]
            m_runs == {r \in base_query(db_runs, user_id) :
                          r.completed_at >= m_start /\ r.completed_at < m_end}
        IN SumKm(m_runs) >= monthly_target})

\* the catalog in the order of the ACHIEVEMENTS dict.  The "check" lambda of
\* an entry is given by kind, key and n:
\*   "stat": s[key] >= n                      "type": runs_by_type.get(key, 0) >= n
\*   "all":  every distance of 3k..21k run at least n times
\*   "both": outdoor_runs >= n and treadmill_runs >= n
ACHIEVEMENTS ==
    << [id |-> "first_run", category |-> "milestone", kind |-> "stat", key |-> "total_runs", n |-> 1],
       [id |-> "runs_5", category |-> "milestone", kind |-> "stat", key |-> "total_runs", n |-> 5],
       [id |-> "runs_10", category |-> "milestone", kind |-> "stat", key |-> "total_runs", n |-> 10],
       [id |-> "runs_25", category |-> "milestone", kind |-> "stat", key |-> "total_runs", n |-> 25],
       [id |-> "runs_50", category |-> "milestone", kind |-> "stat", key |-> "total_runs", n |-> 50],
       [id |-> "runs_75", category |-> "milestone", kind |-> "stat", key |-> "total_runs", n |-> 75],
       [id |-> "runs_100", category |-> "milestone", kind |-> "stat", key |-> "total_runs", n |-> 100],
       [id |-> "runs_200", category |-> "milestone", kind |-> "stat", key |-> "total_runs", n |-> 200],
       [id |-> "km_25", category |-> "distance", kind |-> "stat", key |-> "total_km", n |-> 25],
       [id |-> "km_50", category |-> "distance", kind |-> "stat", key |-> "total_km", n |-> 50],
       [id |-> "km_100", category |-> "distance", kind |-> "stat", key |-> "total_km", n |-> 100],
       [id |-> "km_250", category |-> "distance", kind |-> "stat", key |-> "total_km", n |-> 250],
       [id |-> "km_500", category |-> "distance", kind |-> "stat", key |-> "total_km", n |-> 500],
       [id |-> "km_750", category |-> "distance", kind |-> "stat", key |-> "total_km", n |-> 750],
       [id |-> "km_1000", category |-> "distance", kind |-> "stat", key |-> "total_km", n |-> 1000],
       [id |-> "km_1500", category |-> "distance", kind |-> "stat", key |-> "total_km", n |-> 1500],
       [id |-> "first_3k", category |-> "distance_type", kind |-> "type", key |-> "3k", n |-> 1],
       [id |-> "first_5k", category |-> "distance_type", kind |-> "type", key |-> "5k", n |-> 1],
       [id |-> "first_10k", category |-> "distance_type", kind |-> "type", key |-> "10k", n |-> 1],
       [id |-> "first_15k", category |-> "distance_type", kind |-> "type", key |-> "15k", n |-> 1],
       [id |-> "first_18k", category |-> "distance_type", kind |-> "type", key |-> "18k", n |-> 1],
       [id |-> "first_21k", category |-> "distance_type", kind |-> "type", key |-> "21k", n |-> 1],
       [id |-> "all_distances", category |-> "distance_type", kind |-> "all", key |-> "", n |-> 1],
       [id |-> "ten_3ks", category |-> "specialist", kind |-> "type", key |-> "3k", n |-> 10],
       [id |-> "ten_5ks", category |-> "specialist", kind |-> "type", key |-> "5k", n |-> 10],
       [id |-> "ten_10ks", category |-> "specialist", kind |-> "type", key |-> "10k", n |-> 10],
       [id |-> "five_15ks", category |-> "specialist", kind |-> "type", key |-> "15k", n |-> 5],
       [id |-> "five_18ks", category |-> "specialist", kind |-> "type", key |-> "18k", n |-> 5],
       [id |-> "five_21ks", category |-> "specialist", kind |-> "type", key |-> "21k", n |-> 5],
       [id |-> "twenty_5ks", category |-> "specialist", kind |-> "type", key |-> "5k", n |-> 20],
       [id |-> "streak_2", category |-> "streak", kind |-> "stat", key |-> "longest_streak", n |-> 2],
       [id |-> "streak_4", category |-> "streak", kind |-> "stat", key |-> "longest_streak", n |-> 4],
       [id |-> "streak_8", category |-> "streak", kind |-> "stat", key |-> "longest_streak", n |-> 8],
       [id |-> "streak_12", category |-> "streak", kind |-> "stat", key |-> "longest_streak", n |-> 12],
       [id |-> "streak_26", category |-> "streak", kind |-> "stat", key |-> "longest_streak", n |-> 26],
       [id |-> "streak_52", category |-> "streak", kind |-> "stat", key |-> "longest_streak", n |-> 52],
       [id |-> "monthly_goal_1", category |-> "goals", kind |-> "stat", key |-> "monthly_goals_hit", n |-> 1],
       [id |-> "monthly_goal_3", category |-> "goals", kind |-> "stat", key |-> "monthly_goals_hit", n |-> 3],
       [id |-> "monthly_goal_6", category |-> "goals", kind |-> "stat", key |-> "monthly_goals_hit", n |-> 6],
       [id |-> "monthly_goal_9", category |-> "goals", kind |-> "stat", key |-> "monthly_goals_hit", n |-> 9],
       [id |-> "monthly_goal_12", category |-> "goals", kind |-> "stat", key |-> "monthly_goals_hit", n |-> 12],
       [id |-> "outdoor_10", category |-> "category", kind |-> "stat", key |-> "outdoor_runs", n |-> 10],
       [id |-> "outdoor_50", category |-> "category", kind |-> "stat", key |-> "outdoor_runs", n |-> 50],
       [id |-> "treadmill_10", category |-> "category", kind |-> "stat", key |-> "treadmill_runs", n |-> 10],
       [id |-> "both_categories", category |-> "category", kind |-> "both", key |-> "", n |-> 5],
       [id |-> "steps_first", category |-> "steps", kind |-> "stat", key |-> "total_step_entries", n |-> 1],
       [id |-> "steps_10", category |-> "steps", kind |-> "stat", key |-> "total_step_entries", n |-> 10],
       [id |-> "steps_25", category |-> "steps", kind |-> "stat", key |-> "total_step_entries", n |-> 25],
       [id |-> "steps_20k_5", category |-> "steps", kind |-> "stat", key |-> "days_20k_steps", n |-> 5],
       [id |-> "steps_25k_3", category |-> "steps", kind |-> "stat", key |-> "days_25k_steps", n |-> 3] >>

\* s.get("runs_by_type", {}).get(t, 0)
RunsOfType(s, t) ==
    IF t \in DOMAIN s.runs_by_type THEN s.runs_by_type[t] ELSE 0

\* achievement["check"](s)
check(achievement, s) ==
    CASE achievement.kind = "stat" -> s[achievement.key] >= achievement.n
      [] achievement.kind = "type" -> RunsOfType(s, achievement.key) >= achievement.n
      [] achievement.kind = "all" ->
            \A d \in {"3k", "5k", "10k", "15k", "18k", "21k"} :
                RunsOfType(s, d) >= achievement.n
      [] achievement.kind = "both" ->
            s.outdoor_runs >= achievement.n /\ s.treadmill_runs >= achievement.n

\* extended_stats: the snapshot the predicates are applied to
ExtendedStats(db_runs, db_steps, stats, user_id, now_) ==
    LET all_runs == {r \in db_runs : r.completed_at >= min_date
                                     /\ (user_id # None => r.user_id = user_id)}
        step_rows == {e \in db_steps : user_id # None => e.user_id = user_id}
    IN [total_runs |-> stats.total_runs,
        total_km |-> stats.total_km,
        longest_streak |-> stats.longest_streak,
        runs_by_type |-> [t \in {r.run_type : r \in all_runs} |->
                             Cardinality({r \in all_runs : r.run_type = t})],
        monthly_goals_hit |-> MonthlyGoalsHit(db_runs, MONTHLY_GOAL_KM, user_id, now_),
        outdoor_runs |-> Cardinality({r \in all_runs : r.category # "treadmill"}),
        treadmill_runs |-> Cardinality({r \in all_runs : r.category = "treadmill"}),
        total_step_entries |-> Cardinality(step_rows),
        days_20k_steps |-> Cardinality({e \in step_rows : e.step_count >= 20000}),
        days_25k_steps |-> Cardinality({e \in step_rows : e.step_count >= 25000})]

\* mutant of AchievementData: km_1000 needs more than 1000 km
AchievementDataStrictKm(extended_stats) ==
    [i \in 1..Len(ACHIEVEMENTS) |->
        [id |-> ACHIEVEMENTS[i].id,
         category |-> ACHIEVEMENTS[i].category,
         unlocked |-> IF ACHIEVEMENTS[i].id = "km_1000"
                      THEN extended_stats.total_km > 1000
                      ELSE check(ACHIEVEMENTS[i], extended_stats)]]

\* achievement_data of every catalog entry, in catalog order
AchievementData(extended_stats) ==
    [i \in 1..Len(ACHIEVEMENTS) |->
        [id |-> ACHIEVEMENTS[i].id,
         category |-> ACHIEVEMENTS[i].category,
         unlocked |-> check(ACHIEVEMENTS[i], extended_stats)]]

\* the unlocked/locked lists and the counts
AchievementsDict(data, unlocked) ==
    [unlocked |-> unlocked,
     locked |-> SelectSeq(data, LAMBDA a : ~a.unlocked),
     total |-> Len(ACHIEVEMENTS),
     unlocked_count |-> Len(unlocked)]

PartitionAchievements(data) ==
    AchievementsDict(data, SelectSeq(data, LAMBDA a : a.unlocked))

\* achievements.get_achievements
get_achievements(db_runs, db_steps, stats, user_id, now_) ==
    PartitionAchievements(
        AchievementData(ExtendedStats(db_runs, db_steps, stats, user_id, now_)))

---------------------------------------------------------------------------
(* Run handlers, main.py and crud.py.  An optional request field is <<>>   *)
(* when absent (None) and <<v>> when given.                                *)

\* mutant of check_personal_best: a tie with the best previous time counts
check_personal_best_ties(db_runs, new_run) ==
    LET previous_runs ==
            {r \in db_runs : /\ r.run_type = new_run.run_type
                             /\ r.id # new_run.id
                             /\ r.completed_at >= min_date
                             /\ (new_run.user_id # None => r.user_id = new_run.user_id)}
    IN IF previous_runs = {} THEN <<TRUE, <<"fastest_" \o new_run.run_type>> >>
       ELSE IF new_run.duration_seconds
                 <= Min({r.duration_seconds : r \in previous_runs})
       THEN <<TRUE, <<"fastest_" \o new_run.run_type>> >>
       ELSE <<FALSE, <<>> >>

\* main.check_personal_best: <<is_pr, pr_type>>
check_personal_best(db_runs, new_run) ==
    LET previous_runs ==
            {r \in db_runs : /\ r.run_type = new_run.run_type
                             /\ r.id # new_run.id
                             /\ r.completed_at >= min_date
                             /\ (new_run.user_id # None => r.user_id = new_run.user_id)}
    IN IF previous_runs = {} THEN <<TRUE, <<"fastest_" \o new_run.run_type>> >>
       ELSE IF new_run.duration_seconds
                 < Min({r.duration_seconds : r \in previous_runs})
       THEN <<TRUE, <<"fastest_" \o new_run.run_type>> >>
       ELSE <<FALSE, <<>> >>

\* main.format_run_response
format_run_response(run, is_personal_best, pr_type) ==
    [id |-> run.id,
     run_type |-> run.run_type,
     duration_seconds |-> run.duration_seconds,
     distance_km |-> run.distance_km,
     completed_at |-> run.completed_at,
     category |-> IF run.category = "" THEN "outdoor" ELSE run.category,
     pace_per_km |-> IF run.distance_km > 0
                     THEN FormatMinSec(run.duration_seconds \div (run.distance_km * 60),
                                       (run.duration_seconds \div run.distance_km) % 60)
                     ELSE "0:00",
     formatted_duration |-> FormatMinSec(run.duration_seconds \div 60,
                                         run.duration_seconds % 60),
     is_personal_best |-> is_personal_best,
     pr_type |-> pr_type]

\* the Run row crud.create_run inserts; RUN_DISTANCES.get(run_type, 0.0)
NewRun(id, run, user_id, now_) ==
    [id |-> id,
     user_id |-> user_id,
     run_type |-> run.run_type,
     duration_seconds |-> run.duration_seconds,
     distance_km |-> IF run.run_type \in DOMAIN RUN_DISTANCES
                     THEN RUN_DISTANCES[run.run_type] ELSE 0,
     completed_at |-> IF run.completed_at # <<>> THEN run.completed_at[1] ELSE now_,
     category |-> IF run.category = <<>> \/ run.category = <<"">>
                  THEN "outdoor" ELSE run.category[1]]

\* POST /runs
CreateRun(caller, run) ==
    IF run.run_type \notin DOMAIN RUN_DISTANCES
    THEN /\ resp' = [op |-> "create_run", status |-> 400, request |-> run]
         /\ UNCHANGED <<runs, next_run_id, user_stats, step_entries, now, other_tables>>
    ELSE /\ next_run_id <= MaxRuns
         /\ LET db_run == NewRun(next_run_id, run, caller, now)
                pb == check_personal_best(runs \cup {db_run}, db_run)
            IN /\ runs' = runs \cup {db_run}
               /\ next_run_id' = next_run_id + 1
               /\ user_stats' = update_stats_after_run(user_stats, db_run.distance_km)
               /\ resp' = [op |-> "create_run", status |-> 200, request |-> run,
                           body |-> format_run_response(db_run, pb[1], pb[2])]
         /\ UNCHANGED <<step_entries, now, other_tables>>

\* the row crud.update_run leaves; RUN_DISTANCES.get(run_type, run.distance_km)
UpdatedRun(run, upd) ==
    LET r1 == IF upd.run_type # <<>>
              THEN [run EXCEPT !.run_type = upd.run_type[1],
                               !.distance_km =
                                   IF upd.run_type[1] \in DOMAIN RUN_DISTANCES
                                   THEN RUN_DISTANCES[upd.run_type[1]]
                                   ELSE run.distance_km]
              ELSE run
        r2 == IF upd.duration_seconds # <<>>
              THEN [r1 EXCEPT !.duration_seconds = upd.duration_seconds[1]]
              ELSE r1
    IN IF upd.category # <<>> THEN [r2 EXCEPT !.category = upd.category[1]] ELSE r2

\* PUT /runs/{run_id}
UpdateRun(run_id, upd) ==
    /\ UNCHANGED <<next_run_id, user_stats, step_entries, now, other_tables>>
    /\ IF /\ upd.run_type # <<>> /\ upd.run_type # <<"">>
          /\ upd.run_type[1] \notin DOMAIN RUN_DISTANCES
       THEN /\ resp' = [op |-> "update_run", status |-> 400]
            /\ UNCHANGED runs
       ELSE IF \A r \in runs : r.id # run_id
       THEN /\ resp' = [op |-> "update_run", status |-> 404]
            /\ UNCHANGED runs
       ELSE LET run == CHOOSE r \in runs : r.id = run_id
                updated == UpdatedRun(run, upd)
            IN /\ runs' = (runs \ {run}) \cup {updated}
               /\ resp' = [op |-> "update_run", status |-> 200,
                           body |-> format_run_response(updated, FALSE, <<>>)]

\* DELETE /runs/{run_id}
DeleteRun(run_id) ==
    /\ UNCHANGED <<next_run_id, user_stats, step_entries, now, other_tables>>
    /\ IF \A r \in runs : r.id # run_id
       THEN /\ resp' = [op |-> "delete_run", status |-> 404]
            /\ UNCHANGED runs
       ELSE /\ runs' = {r \in runs : r.id # run_id}
            /\ resp' = [op |-> "delete_run", status |-> 200]

\* what GET /achievements returns for the snapshot stats
AchievementsResponse(caller, stats) ==
    [op |-> "get_achievements", user_id |-> caller, status |-> 200,
     stats |-> stats,
     body |-> get_achievements(runs, step_entries, stats, caller, now)]

\* GET /achievements
GetAchievements(caller) ==
    /\ user_stats' = get_or_create_stats(user_stats)
    /\ resp' = AchievementsResponse(caller,
                   get_stats_summary(runs, user_stats, caller, now))
    /\ UNCHANGED <<runs, next_run_id, step_entries, now, other_tables>>

---------------------------------------------------------------------------
(* The run API: any sequence of create, update, delete, stats and          *)
(* achievements requests, made on day Today.  Spec tries every run-type    *)
(* label; SpecPR keeps to one label, varies the caller, the duration and   *)
(* the completion date, and adds the achievements request.                 *)

\* labels tried: the table's keys, the RunType enum, and two strangers
RunTypeLabels == DOMAIN RUN_DISTANCES \cup RunType \cup {"", "7k"}

PreEpoch == min_date - 1

RunCreate(run_type, duration_seconds, completed_at) ==
    [run_type |-> run_type, duration_seconds |-> duration_seconds,
     completed_at |-> completed_at, category |-> <<>>]

RunUpdate(run_type, duration_seconds) ==
    [run_type |-> run_type, duration_seconds |-> duration_seconds, category |-> <<>>]

\* Spec, POST /runs: <<caller, body>>, every label once
RunCreateInputs == {<<1, RunCreate(t, 1500, <<>>)>> : t \in RunTypeLabels}

\* Spec, PUT /runs/{id}: an empty label, an unknown label, a known label
RunUpdateInputs ==
    {RunUpdate(<<"">>, <<>>), RunUpdate(<<"7k">>, <<>>), RunUpdate(<<"21k">>, <<>>)}

\* SpecPR, POST /runs: "10k" runs of user 1 (fast, slow, dated before the
\* epoch), of user 2 and of an anonymous caller
PRCreateInputs ==
    {<<1, RunCreate("10k", 1500, <<>>)>>,
     <<1, RunCreate("10k", 1800, <<>>)>>,
     <<1, RunCreate("10k", 1500, <<PreEpoch>>)>>,
     <<2, RunCreate("10k", 1500, <<>>)>>,
     <<None, RunCreate("10k", 1500, <<>>)>>}

\* SpecPR, PUT /runs/{id}: another label, another duration
PRUpdateInputs == {RunUpdate(<<"21k">>, <<>>), RunUpdate(<<>>, <<1800>>)}

RunIds == 1..(MaxRuns + 1)

Init ==
    /\ runs = {}
    /\ next_run_id = 1
    /\ user_stats = <<>>
    /\ step_entries = {}
    /\ now = Today
    /\ resp = [op |-> "none"]
    /\ OtherTablesEmpty

Next ==
    \/ \E i \in RunCreateInputs : CreateRun(i[1], i[2])
    \/ \E run_id \in RunIds, upd \in RunUpdateInputs : UpdateRun(run_id, upd)
    \/ \E run_id \in RunIds : DeleteRun(run_id)
    \/ \E caller \in Callers : GetStats(caller)

Spec == Init /\ [][Next]_vars

NextPR ==
    \/ \E i \in PRCreateInputs : CreateRun(i[1], i[2])
    \/ \E run_id \in RunIds, upd \in PRUpdateInputs : UpdateRun(run_id, upd)
    \/ \E run_id \in RunIds : DeleteRun(run_id)
    \/ \E caller \in Callers : GetStats(caller)
    \/ \E caller \in Callers : GetAchievements(caller)

SpecPR == Init /\ [][NextPR]_vars

---------------------------------------------------------------------------
(* get_achievements(db, stats, user_id) on drawn arguments: a database of  *)
(* a few runs and step entries, and a stats snapshot.                      *)

AchRun(id, user_id, run_type, completed_at, category) ==
    [id |-> id, user_id |-> user_id, run_type |-> run_type,
     duration_seconds |-> 1500, distance_km |-> RUN_DISTANCES[run_type],
     completed_at |-> completed_at, category |-> category]

AchRunRows ==
    {AchRun(1, 1, "3k", 5, "outdoor"), AchRun(2, 1, "21k", 6, "treadmill"),
     AchRun(3, 2, "5k", 7, "outdoor"), AchRun(4, 1, "10k", PreEpoch, "outdoor")}

AchStepRows ==
    {[id |-> 1, user_id |-> 1, step_count |-> 25000, recorded_date |-> 5],
     [id |-> 2, user_id |-> 2, step_count |-> 1000, recorded_date |-> 6]}

StatsSnapshots ==
    [total_runs : {0, 1, 200}, total_km : {0, 999, 1000}, longest_streak : {0, 52}]

InitAch ==
    /\ runs \in SUBSET AchRunRows
    /\ next_run_id = Cardinality(AchRunRows) + 1
    /\ user_stats = <<[total_runs |-> Cardinality(runs), total_km |-> SumKm(runs)]>>
    /\ step_entries \in SUBSET AchStepRows
    /\ now = Today
    /\ resp = [op |-> "none"]
    /\ OtherTablesEmpty

\* a call of achievements.get_achievements
CallGetAchievements(caller, stats) ==
    /\ resp' = AchievementsResponse(caller, stats)
    /\ UNCHANGED <<runs, next_run_id, user_stats, step_entries, now, other_tables>>

NextAch == \E caller \in Callers, stats \in StatsSnapshots : CallGetAchievements(caller, stats)

SpecAch == InitAch /\ [][NextAch]_vars

---------------------------------------------------------------------------
(* The streak engine on drawn databases: every database is built from     *)
(* NumWeeks consecutive weeks, the first being the week of the epoch      *)
(* (Sunday 2025-12-28), each holding the runs of one week profile.        *)

\* a profile lists <<user_id, run_type, day of the week (0 = Sunday)>>
WeekProfiles ==
    { <<>>,
      << <<1, "10k", 0>>, <<1, "5k", 3>> >>,
      << <<1, "10k", 1>>, <<1, "3k", 4>>, <<1, "5k", 6>> >>,
      << <<1, "21k", 4>>, <<1, "3k", 5>>, <<1, "3k", 6>>, <<2, "5k", 6>> >>,
      << <<1, "3k", 2>>, <<1, "5k", 4>>, <<1, "3k", 5>> >>,
      << <<1, "10k", 4>>, <<1, "15k", 5>>, <<2, "5k", 5>>, <<2, "3k", 6>> >> }

ProfileLen == Max({Len(p) : p \in WeekProfiles})

EpochWeek == WeekStart(min_date)

ProfileRows(k, p) ==
    { [id |-> k * ProfileLen + i,
       user_id |-> p[i][1],
       run_type |-> p[i][2],
       duration_seconds |-> 1500 + 60 * i,
       distance_km |-> RUN_DISTANCES[p[i][2]],
       completed_at |-> EpochWeek + 7 * k + p[i][3],
       category |-> "outdoor"] : i \in 1..Len(p) }

\* now is a Tuesday of one of the last two drawn weeks or of the week after
StreakNows == {EpochWeek + 7 * k + 2 : k \in (NumWeeks - 2)..NumWeeks}

InitStreak ==
    /\ \E f \in [0..(NumWeeks - 1) -> WeekProfiles] :
          runs = UNION {ProfileRows(k, f[k]) : k \in 0..(NumWeeks - 1)}
    /\ next_run_id = NumWeeks * ProfileLen + 1
    /\ user_stats = IF runs = {} THEN <<>>
                    ELSE <<[total_runs |-> Cardinality(runs), total_km |-> SumKm(runs)]>>
    /\ step_entries = {}
    /\ now \in StreakNows
    /\ resp = [op |-> "none"]
    /\ OtherTablesEmpty

NextStreak == \E caller \in Callers : GetStats(caller)

SpecStreak == InitStreak /\ [][NextStreak]_vars


---------------------------------------------------------------------------
(* Claims about the streak engine, checked under SpecStreak.  They speak   *)
(* of the caller's in-scope runs and of qualifying weeks in the words of   *)
(* the valid-week rule, not through the operators of the engine.          *)

\* the rows a caller's statistics are about: since the epoch, and the
\* caller's own unless the caller is anonymous
InScopeRuns(u) ==
    {r \in runs : r.completed_at >= 0 /\ (u = None \/ r.user_id = u)}

\* the caller's in-scope runs of the Sunday-Saturday week starting on day w
RunsOfWeek(u, w) ==
    {r \in InScopeRuns(u) : w <= r.completed_at /\ r.completed_at <= w + 6}

\* the valid-week rule: 3 runs or more, one of 10 km or more, two under 10 km
Qualifies(rs) ==
    /\ Cardinality(rs) >= 3
    /\ \E r \in rs : r.distance_km >= 10
    /\ \E r1, r2 \in rs : r1 # r2 /\ r1.distance_km < 10 /\ r2.distance_km < 10

QualifyingWeek(u, w) == Qualifies(RunsOfWeek(u, w))

\* the Sundays from the epoch week to the week after the drawn ones
Sundays == {EpochWeek + 7 * k : k \in 0..(NumWeeks + 1)}

ThisWeek == WeekStart(now)

\* number of consecutive qualifying weeks ending with week w
RECURSIVE QualifyingRunEndingAt(_, _)
QualifyingRunEndingAt(u, w) ==
    IF w < EpochWeek \/ ~QualifyingWeek(u, w) THEN 0
    ELSE 1 + QualifyingRunEndingAt(u, w - 7)

StatsAnswered == resp.op = "get_stats"

NoLaterRuns(u) == \A r \in InScopeRuns(u) : r.completed_at <= ThisWeek + 6

\* C2 (as claimed, on databases without runs dated after the current week):
\* when the current week qualifies and the week before it has no runs,
\* current_streak is 1 whatever lies further back.
C2_GapEndsStreak ==
    (/\ StatsAnswered
     /\ NoLaterRuns(resp.user_id)
     /\ QualifyingWeek(resp.user_id, ThisWeek)
     /\ RunsOfWeek(resp.user_id, ThisWeek - 7) = {})
        => resp.body.current_streak = 1

\* C3 (as claimed, on databases without runs dated after the current week):
\* when the current week does not qualify, current_streak is the number of
\* consecutive qualifying weeks ending at the previous week, hence 0 when the
\* previous week does not qualify or is empty.
C3_GraceOnlyForCurrentWeek ==
    (/\ StatsAnswered
     /\ NoLaterRuns(resp.user_id)
     /\ ~QualifyingWeek(resp.user_id, ThisWeek))
        => resp.body.current_streak = QualifyingRunEndingAt(resp.user_id, ThisWeek - 7)

\* C4: when the caller's in-scope runs lie exactly in the k weeks W, W-1, ...,
\* W-k+1 ending with the current week W and each of them qualifies,
\* current_streak = k and longest_streak = k.
C4_ConsecutiveWeeksCount ==
    StatsAnswered =>
        LET u == resp.user_id
            weeks == {w \in Sundays : RunsOfWeek(u, w) # {}}
            k == Cardinality(weeks)
        IN (/\ k >= 1
            /\ weeks = {ThisWeek - 7 * i : i \in 0..(k - 1)}
            /\ \A w \in weeks : QualifyingWeek(u, w))
              => /\ resp.body.current_streak = k
                 /\ resp.body.longest_streak = k

\* C4 witness: the documented scenario, three qualifying weeks W, W-1, W-2
\* and nothing else, answered with 3 and 3
C4_Witness ==
    /\ StatsAnswered
    /\ {w \in Sundays : RunsOfWeek(resp.user_id, w) # {}}
          = {ThisWeek, ThisWeek - 7, ThisWeek - 14}
    /\ \A i \in 0..2 : QualifyingWeek(resp.user_id, ThisWeek - 7 * i)
    /\ resp.body.current_streak = 3
    /\ resp.body.longest_streak = 3

\* C5: longest_streak is the greatest number of qualifying weeks that follow
\* one another 7 days apart, over all the caller's in-scope weeks.
C5_LongestStreakIsMaxRun ==
    StatsAnswered =>
        resp.body.longest_streak
            = Max({QualifyingRunEndingAt(resp.user_id, w) : w \in Sundays})

\* C5 witness: two qualifying weeks separated by a week without runs, and a
\* longest streak of 1
C5_Witness ==
    /\ StatsAnswered
    /\ \E w \in Sundays :
          /\ QualifyingWeek(resp.user_id, w)
          /\ RunsOfWeek(resp.user_id, w + 7) = {}
          /\ QualifyingWeek(resp.user_id, w + 14)
    /\ resp.body.longest_streak = 1


---------------------------------------------------------------------------
(* Claims about the run API *)

\* C6 (as claimed): every stored run has a run_type that is a key of the
\* distance table and a distance_km equal to the table's value for it.
C6_DistanceMatchesRunType ==
    \A r \in runs :
        /\ r.run_type \in DOMAIN RUN_DISTANCES
        /\ r.distance_km = RUN_DISTANCES[r.run_type]

\* the enumeration of run-type labels the documentation gives, and the
\* distance each label stands for
FixedEnumeration == {"3k", "5k", "10k", "15k", "18k", "20k", "21k"}
DocumentedDistance ==
    [t \in FixedEnumeration |->
        CASE t = "3k" -> 3 [] t = "5k" -> 5 [] t = "10k" -> 10 [] t = "15k" -> 15
          [] t = "18k" -> 18 [] t = "20k" -> 20 [] t = "21k" -> 21]

\* C7 (as claimed): a POST /runs with a label of the enumeration stores a run
\* with the label's distance; with any other label it is rejected, adds no
\* run and leaves UserStats alone.
C7_EnumerationAccepted ==
    [][(resp'.op = "create_run" /\ resp' # resp) =>
          LET t == resp'.request.run_type
          IN IF t \in FixedEnumeration
             THEN /\ resp'.status = 200
                  /\ \E r \in runs' \ runs :
                        r.run_type = t /\ r.distance_km = DocumentedDistance[t]
             ELSE /\ resp'.status = 400
                  /\ runs' = runs
                  /\ user_stats' = user_stats]_vars

\* the row a create response is about
CreatedRun == CHOOSE r \in runs : r.id = resp.body.id

\* the creator's other in-scope runs of the same type
OtherRunsOfType(new) ==
    {r \in runs : /\ r.id # new.id
                  /\ r.user_id = new.user_id
                  /\ r.run_type = new.run_type
                  /\ r.completed_at >= 0}

RunCreatedByUser ==
    /\ resp.op = "create_run"
    /\ resp.status = 200
    /\ CreatedRun.user_id \in Users

DistanceValues == {RUN_DISTANCES[t] : t \in DOMAIN RUN_DISTANCES}

\* count and total distance of the caller's in-scope rows, the distance
\* summed distance by distance
LiveRuns(u) == Cardinality(InScopeRuns(u))

RECURSIVE WeightedCount(_, _)
WeightedCount(rs, ds) ==
    IF ds = {} THEN 0
    ELSE LET d == Max(ds)
         IN d * Cardinality({r \in rs : r.distance_km = d}) + WeightedCount(rs, ds \ {d})

LiveKm(u) == WeightedCount(InScopeRuns(u), DistanceValues)

UnlockedIds == {resp.body.unlocked[i].id : i \in 1..Len(resp.body.unlocked)}
LockedIds == {resp.body.locked[i].id : i \in 1..Len(resp.body.locked)}

\* C10: in every reachable state the stats summary of every caller reports
\* the count and the distance of the caller's current in-scope runs, whatever
\* the UserStats counter holds, and achievements are evaluated on these
\* figures: first_run and km_25 are unlocked exactly while the caller's
\* current runs reach 1 run and 25 km.
C10_TotalsAreLive ==
    /\ \A u \in Callers :
          LET summary == get_stats_summary(runs, user_stats, u, now)
          IN summary.total_runs = LiveRuns(u) /\ summary.total_km = LiveKm(u)
    /\ resp.op = "get_achievements" =>
          /\ resp.stats.total_runs = LiveRuns(resp.user_id)
          /\ resp.stats.total_km = LiveKm(resp.user_id)
          /\ "first_run" \in UnlockedIds <=> LiveRuns(resp.user_id) >= 1
          /\ "km_25" \in UnlockedIds <=> LiveKm(resp.user_id) >= 25

\* C10 witness: achievements requested after the caller's runs were deleted:
\* the counter still counts them, first_run is locked again
C10_Witness ==
    /\ resp.op = "get_achievements"
    /\ runs = {}
    /\ user_stats # <<>>
    /\ user_stats[1].total_runs >= 1
    /\ user_stats[1].total_km >= 10
    /\ "first_run" \in LockedIds

---------------------------------------------------------------------------
(* Claims about get_achievements, checked under SpecAch *)

CatalogIds == {ACHIEVEMENTS[i].id : i \in 1..Len(ACHIEVEMENTS)}

\* the caller's step entries
StepsOf(u) == {e \in step_entries : u = None \/ e.user_id = u}

\* C9: every catalog entry is in exactly one of unlocked and locked, in
\* unlocked exactly when its predicate holds on the assembled snapshot
\* (first_run: total_runs >= 1, km_1000: total_km >= 1000, first_3k: an
\* in-scope 3k run, steps_first: a step entry); unlocked_count is the length
\* of unlocked and total is the size of the catalog.
C9_CatalogPartition ==
    resp.op = "get_achievements" =>
        /\ UnlockedIds \cup LockedIds = CatalogIds
        /\ UnlockedIds \cap LockedIds = {}
        /\ Len(resp.body.unlocked) + Len(resp.body.locked) = Cardinality(CatalogIds)
        /\ \A i \in 1..Len(resp.body.unlocked) : resp.body.unlocked[i].unlocked
        /\ \A i \in 1..Len(resp.body.locked) : ~resp.body.locked[i].unlocked
        /\ "first_run" \in UnlockedIds <=> resp.stats.total_runs >= 1
        /\ "km_1000" \in UnlockedIds <=> resp.stats.total_km >= 1000
        /\ "streak_52" \in UnlockedIds <=> resp.stats.longest_streak >= 52
        /\ "first_3k" \in UnlockedIds <=>
              \E r \in InScopeRuns(resp.user_id) : r.run_type = "3k"
        /\ "steps_first" \in UnlockedIds <=> StepsOf(resp.user_id) # {}
        /\ resp.body.unlocked_count = Len(resp.body.unlocked)
        /\ resp.body.total = Cardinality(CatalogIds)
        /\ resp.body.total = 50

\* C9 witness: a snapshot of 0 runs and exactly 1000 km: km_1000 unlocked,
\* first_run locked
C9_Witness ==
    /\ resp.op = "get_achievements"
    /\ resp.stats.total_runs = 0
    /\ resp.stats.total_km = 1000
    /\ "km_1000" \in UnlockedIds
    /\ "first_run" \in LockedIds

---------------------------------------------------------------------------
(* Goals progress and month in review: achievements.get_goals_progress,    *)
(* the /goals and /user/goals handlers of main.py, and                     *)
(* crud.get_month_in_review.  A percentage is held in tenths of a percent  *)
(* (round(x, 1) * 10); weights are whole pounds.                            *)

YEARLY_GOAL_KM == 1000

\* round(n / d) for n >= 0, d > 0, halves to the even neighbour as round() does
RoundHalfEven(n, d) ==
    LET q == n \div d
        r == n % d
    IN IF 2 * r > d \/ (2 * r = d /\ q % 2 = 1) THEN q + 1 ELSE q

\* mutant of PercentTenths: the percentage is not clamped
PercentTenthsUnclamped(km, target) ==
    IF target > 0 THEN RoundHalfEven(km * 1000, target) ELSE 0

\* round(min(100, (km / target) * 100) if target > 0 else 0, 1), in tenths
PercentTenths(km, target) ==
    IF target > 0 THEN Min({1000, RoundHalfEven(km * 1000, target)}) ELSE 0

\* month_runs of get_goals_progress
MonthRuns(db_runs, user_id, now_) ==
    {r \in base_query(db_runs, user_id) :
        r.completed_at >= MonthStartOf(now_) /\ r.completed_at >= min_date}

\* achievements.get_goals_progress; yearly_goal and monthly_goal are <<>> for
\* None.  month_name is not modelled; the two days_remaining are
\* days_left_in_year and days_left_in_month, further down.
get_goals_progress(db_runs, yearly_goal, monthly_goal, user_id, now_) ==
    LET yearly_target == IF yearly_goal # <<>> THEN yearly_goal[1] ELSE YEARLY_GOAL_KM
        monthly_target == IF monthly_goal # <<>> THEN monthly_goal[1] ELSE MONTHLY_GOAL_KM
        year_start == 0
        year_runs == {r \in base_query(db_runs, user_id) :
                         r.completed_at >= year_start /\ r.completed_at >= min_date}
        yearly_km == SumKm(year_runs)
        monthly_km == SumKm(MonthRuns(db_runs, user_id, now_))
        tm_yday == now_ - YearStartOf(now_) + 1
    IN [yearly |-> [goal_km |-> yearly_target,
                    current_km |-> yearly_km,
                    remaining_km |-> Max({0, yearly_target - yearly_km}),
                    percent |-> PercentTenths(yearly_km, yearly_target),
                    on_track |-> yearly_km * 365 >= yearly_target * tm_yday],
        monthly |-> [goal_km |-> monthly_target,
                     current_km |-> monthly_km,
                     remaining_km |-> Max({0, monthly_target - monthly_km}),
                     percent |-> PercentTenths(monthly_km, monthly_target),
                     is_complete |-> monthly_km >= monthly_target],
        monthly_goals_hit |-> MonthlyGoalsHit(db_runs, monthly_target, user_id, now_)]

\* the UserGoals rows of a user
GoalsOf(db_goals, user_id) == {g \in db_goals : g.user_id = user_id}

\* x or default
OrDefault(x, default) == IF x = 0 THEN default ELSE x

\* GET /goals
GetGoals(caller) ==
    /\ LET rows == IF caller # None THEN GoalsOf(user_goals, caller) ELSE {}
           yearly_goal == IF rows # {}
                          THEN OrDefault((CHOOSE g \in rows : TRUE).yearly_km_goal, 1000)
                          ELSE 1000
           monthly_goal == IF rows # {}
                           THEN OrDefault((CHOOSE g \in rows : TRUE).monthly_km_goal, 100)
                           ELSE 100
       IN resp' = [op |-> "get_goals", user_id |-> caller, status |-> 200,
                   body |-> get_goals_progress(runs, <<yearly_goal>>, <<monthly_goal>>,
                                               caller, now)]
    /\ UNCHANGED <<runs, next_run_id, user_stats, step_entries, now, other_tables>>

\* a call of achievements.get_goals_progress with the targets given
CallGetGoalsProgress(yearly_goal, monthly_goal, user_id) ==
    /\ resp' = [op |-> "get_goals_progress", user_id |-> user_id, status |-> 200,
                yearly_goal |-> yearly_goal, monthly_goal |-> monthly_goal,
                body |-> get_goals_progress(runs, yearly_goal, monthly_goal, user_id, now)]
    /\ UNCHANGED <<runs, next_run_id, user_stats, step_entries, now, other_tables>>

\* the row set_user_goals leaves: the fields given are assigned, a new row
\* takes the column defaults for the others
GoalsRowAfter(rows, user_id, goals_data) ==
    LET old == IF rows # {} THEN CHOOSE g \in rows : TRUE
               ELSE [user_id |-> user_id, yearly_km_goal |-> 1000, monthly_km_goal |-> 100]
        g1 == IF goals_data.yearly_km_goal # <<>>
              THEN [old EXCEPT !.yearly_km_goal = goals_data.yearly_km_goal[1]] ELSE old
    IN IF goals_data.monthly_km_goal # <<>>
       THEN [g1 EXCEPT !.monthly_km_goal = goals_data.monthly_km_goal[1]] ELSE g1

---------------------------------------------------------------------------
(* Identity, auth.py.  A bearer token is a record: given is FALSE when the *)
(* request carries none, signed tells whether the signature verifies, exp  *)
(* is the day it expires, sub the e-mail it names (0 when the claim is     *)
(* absent).  E-mails are numbered like the users.                          *)

ACCESS_TOKEN_EXPIRE_DAYS == 7

NoToken == [given |-> FALSE, signed |-> FALSE, exp |-> 0, sub |-> 0]

\* auth.create_access_token(data={"sub": email}) issued on day now_
create_access_token(email, now_) ==
    [given |-> TRUE, signed |-> TRUE, exp |-> now_ + ACCESS_TOKEN_EXPIRE_DAYS, sub |-> email]

\* mutant of decode_token: the expiry is not verified
decode_token_unexpiring(token, now_) ==
    IF token.signed THEN <<[sub |-> token.sub]>> ELSE <<>>

\* auth.decode_token: the payload, <<>> for None; jwt.decode raises JWTError
\* for a signature that does not verify and for an expired token
decode_token(token, now_) ==
    IF token.signed /\ token.exp >= now_ THEN <<[sub |-> token.sub]>> ELSE <<>>

\* auth.get_user_by_email: the matching rows, first() of which is the user
get_user_by_email(db_users, email) == {u \in db_users : u.email = email}

\* auth.get_current_user: the id of the user the token resolves to, or None
get_current_user(token, db_users, now_) ==
    IF ~token.given THEN None
    ELSE LET payload == decode_token(token, now_)
         IN IF payload = <<>> THEN None
            ELSE IF payload[1].sub = 0 THEN None
            ELSE LET found == get_user_by_email(db_users, payload[1].sub)
                 IN IF found = {} THEN None ELSE (CHOOSE u \in found : TRUE).id

\* the answer of require_auth to a request without identity
NotAuthenticated(op, token) == [op |-> op, status |-> 401, token |-> token]

\* the User row of an id
UserOf(db_users, id) == CHOOSE u \in db_users : u.id = id

---------------------------------------------------------------------------
(* Handlers that require identity: user goals, onboarding, handle          *)

\* POST /user/goals
SetUserGoals(token, goals_data) ==
    LET current_user == get_current_user(token, users, now)
    IN /\ IF current_user = None
          THEN /\ resp' = NotAuthenticated("set_user_goals", token)
               /\ UNCHANGED user_goals
          ELSE LET rows == GoalsOf(user_goals, current_user)
                   row == GoalsRowAfter(rows, current_user, goals_data)
               IN /\ user_goals' = (user_goals \ rows) \cup {row}
                  /\ resp' = [op |-> "set_user_goals", status |-> 200, token |-> token,
                              body |-> row]
       /\ UNCHANGED <<runs, next_run_id, user_stats, step_entries, now, weights,
                      next_entry_id, users, circles, memberships, next_circle_id, joins, weekly_plans, creates>>

\* GET /user/goals
GetUserGoals(token) ==
    LET current_user == get_current_user(token, users, now)
    IN /\ IF current_user = None
          THEN resp' = NotAuthenticated("get_user_goals", token)
          ELSE LET rows == GoalsOf(user_goals, current_user)
                   goals == CHOOSE g \in rows : TRUE
                   onboarding == UserOf(users, current_user).onboarding_complete
               IN resp' = [op |-> "get_user_goals", status |-> 200, token |-> token,
                           body |-> IF rows = {}
                                    THEN [yearly_km_goal |-> 1000, monthly_km_goal |-> 100,
                                          onboarding_complete |-> onboarding]
                                    ELSE [yearly_km_goal |-> goals.yearly_km_goal,
                                          monthly_km_goal |-> goals.monthly_km_goal,
                                          onboarding_complete |-> onboarding]]
       /\ UNCHANGED <<runs, next_run_id, user_stats, step_entries, now, other_tables>>

\* GET /auth/me and GET /user/me
GetMe(token) ==
    LET current_user == get_current_user(token, users, now)
    IN /\ IF current_user = None
          THEN resp' = NotAuthenticated("get_me", token)
          ELSE resp' = [op |-> "get_me", status |-> 200, token |-> token,
                        body |-> UserOf(users, current_user)]
       /\ UNCHANGED <<runs, next_run_id, user_stats, step_entries, now, other_tables>>

\* POST /user/complete-onboarding
CompleteOnboarding(token) ==
    LET current_user == get_current_user(token, users, now)
    IN /\ IF current_user = None
          THEN /\ resp' = NotAuthenticated("complete_onboarding", token)
               /\ UNCHANGED users
          ELSE /\ users' = (users \ {UserOf(users, current_user)})
                     \cup {[UserOf(users, current_user) EXCEPT !.onboarding_complete = TRUE]}
               /\ resp' = [op |-> "complete_onboarding", status |-> 200, token |-> token]
       /\ UNCHANGED <<runs, next_run_id, user_stats, step_entries, now, weights,
                      next_entry_id, user_goals, circles, memberships, next_circle_id, joins, weekly_plans, creates>>

\* str.strip().lower() on the handles tried
StripLower(handle) ==
    CASE handle = " Zen_Runner " -> "zen_runner"
      [] handle = "Ace1" -> "ace1"
      [] OTHER -> handle

\* len(handle) of the stripped handles tried
HandleLen(handle) ==
    CASE handle = "" -> 0 [] handle = "ab" -> 2 [] handle = "ace1" -> 4
      [] handle = "zen_runner" -> 10 [] handle = "no way" -> 6

\* handle.replace("_", "").isalnum() of the stripped handles tried
HandleIsAlnum(handle) == handle \in {"ab", "ace1", "zen_runner"}

\* POST /user/handle; handle is "" when the request has none
SetUserHandle(token, raw_handle) ==
    LET current_user == get_current_user(token, users, now)
        handle == StripLower(raw_handle)
    IN /\ IF current_user = None
          THEN /\ resp' = NotAuthenticated("set_user_handle", token)
               /\ UNCHANGED users
          ELSE IF handle = "" \/ HandleLen(handle) < 3 \/ HandleLen(handle) > 20
                  \/ ~HandleIsAlnum(handle)
                  \/ \E u \in users : u.handle = handle /\ u.id # current_user
          THEN /\ resp' = [op |-> "set_user_handle", status |-> 400, token |-> token]
               /\ UNCHANGED users
          ELSE /\ users' = (users \ {UserOf(users, current_user)})
                     \cup {[UserOf(users, current_user) EXCEPT !.handle = handle]}
               /\ resp' = [op |-> "set_user_handle", status |-> 200, token |-> token,
                           body |-> handle]
       /\ UNCHANGED <<runs, next_run_id, user_stats, step_entries, now, weights,
                      next_entry_id, user_goals, circles, memberships, next_circle_id, joins, weekly_plans, creates>>

---------------------------------------------------------------------------
(* Circles, main.py.  The Circle and CircleMembership tables are not among *)
(* the models of models.py; their rows carry what the handlers read and    *)
(* write: Circle (id, name, invite_code, created_by) with a unique         *)
(* invite_code, CircleMembership (id, circle_id, user_id).  A circle name  *)
(* is a tuple of characters.                                               *)

MAX_CIRCLE_MEMBERS == 10

MembersOf(db_memberships, circle_id) ==
    {m \in db_memberships : m.circle_id = circle_id}

MembershipsOf(db_memberships, circle_id, user_id) ==
    {m \in db_memberships : m.circle_id = circle_id /\ m.user_id = user_id}

\* the id a new CircleMembership row gets: an id no row holds.  No handler
\* reads it, and the smallest one is taken to keep the ids bounded.
NextMembershipId(db_memberships) ==
    Min({i \in 1..(Cardinality(db_memberships) + 1) : \A m \in db_memberships : m.id # i})

\* the membership table after db.add(membership); db.commit()
AddMembership(db_memberships, circle_id, user_id) ==
    db_memberships \cup {[id |-> NextMembershipId(db_memberships),
                          circle_id |-> circle_id, user_id |-> user_id]}

\* POST /circles; invite_code is the code secrets.token_urlsafe produced
CreateCircle(token, name, invite_code) ==
    LET current_user == get_current_user(token, users, now)
    IN /\ Cardinality(circles) < MaxCircles
       /\ IF current_user = None
          THEN /\ resp' = NotAuthenticated("create_circle", token)
               /\ UNCHANGED <<circles, memberships, next_circle_id>>
          ELSE IF Len(name) < 2
          THEN /\ resp' = [op |-> "create_circle", status |-> 400, token |-> token]
               /\ UNCHANGED <<circles, memberships, next_circle_id>>
          ELSE IF \E c \in circles : c.invite_code = invite_code
          THEN /\ resp' = [op |-> "create_circle", status |-> 500, token |-> token]
               /\ UNCHANGED <<circles, memberships, next_circle_id>>
          ELSE /\ circles' = circles \cup {[id |-> next_circle_id, name |-> name,
                                            invite_code |-> invite_code,
                                            created_by |-> current_user]}
               /\ next_circle_id' = next_circle_id + 1
               /\ memberships' = AddMembership(memberships, next_circle_id, current_user)
               /\ resp' = [op |-> "create_circle", status |-> 200, token |-> token,
                           body |-> [id |-> next_circle_id, invite_code |-> invite_code,
                                     created_by |-> current_user, member_count |-> 1]]
       /\ UNCHANGED <<runs, next_run_id, user_stats, step_entries, now, weights,
                      next_entry_id, user_goals, users, joins, weekly_plans, creates>>

\* GET /circles: the caller's circles, by circle id
GetMyCircles(token) ==
    LET current_user == get_current_user(token, users, now)
        mine == {c \in circles : MembershipsOf(memberships, c.id, current_user) # {}}
    IN /\ IF current_user = None
          THEN resp' = NotAuthenticated("get_my_circles", token)
          ELSE resp' = [op |-> "get_my_circles", status |-> 200, token |-> token,
                        body |-> [c \in {x.id : x \in mine} |->
                                     [member_count |-> Cardinality(MembersOf(memberships, c)),
                                      is_creator |-> \E x \in mine :
                                          x.id = c /\ x.created_by = current_user]]]
       /\ UNCHANGED <<runs, next_run_id, user_stats, step_entries, now, other_tables>>

\* str.upper().strip() on the invite codes tried
UpperStrip(code) == IF code = " aaaa " THEN "AAAA" ELSE code

\* mutant of JoinAllowed: the circle is full from 11 members on
JoinAllowedUpTo11(db_memberships, circle_id, user_id) ==
    /\ MembershipsOf(db_memberships, circle_id, user_id) = {}
    /\ ~(Cardinality(MembersOf(db_memberships, circle_id)) > MAX_CIRCLE_MEMBERS)

\* the two checks of join_circle: not yet a member, and fewer than 10 members
JoinAllowed(db_memberships, circle_id, user_id) ==
    /\ MembershipsOf(db_memberships, circle_id, user_id) = {}
    /\ ~(Cardinality(MembersOf(db_memberships, circle_id)) >= MAX_CIRCLE_MEMBERS)

\* POST /circles/join, handled without any other request in between;
\* raw_code is "" when the request has no invite_code
JoinCircle(token, raw_code) ==
    LET current_user == get_current_user(token, users, now)
        invite_code == UpperStrip(raw_code)
        found == {c \in circles : c.invite_code = invite_code}
        circle == CHOOSE c \in found : TRUE
    IN /\ IF current_user = None
          THEN /\ resp' = NotAuthenticated("join_circle", token)
               /\ UNCHANGED memberships
          ELSE IF invite_code = ""
          THEN /\ resp' = [op |-> "join_circle", status |-> 400, token |-> token]
               /\ UNCHANGED memberships
          ELSE IF found = {}
          THEN /\ resp' = [op |-> "join_circle", status |-> 404, token |-> token]
               /\ UNCHANGED memberships
          ELSE IF ~JoinAllowed(memberships, circle.id, current_user)
          THEN /\ resp' = [op |-> "join_circle", status |-> 400, token |-> token,
                           circle_id |-> circle.id,
                           detail |-> IF MembershipsOf(memberships, circle.id,
                                                       current_user) # {}
                                      THEN "already a member" ELSE "full"]
               /\ UNCHANGED memberships
          ELSE /\ memberships' = AddMembership(memberships, circle.id, current_user)
               /\ resp' = [op |-> "join_circle", status |-> 200, token |-> token,
                           circle_id |-> circle.id]
       /\ UNCHANGED <<runs, next_run_id, user_stats, step_entries, now, weights,
                      next_entry_id, user_goals, users, circles, next_circle_id, joins, weekly_plans, creates>>

\* DELETE /circles/{circle_id}/leave
LeaveCircle(token, circle_id) ==
    LET current_user == get_current_user(token, users, now)
        mine == MembershipsOf(memberships, circle_id, current_user)
    IN /\ IF current_user = None
          THEN /\ resp' = NotAuthenticated("leave_circle", token)
               /\ UNCHANGED memberships
          ELSE IF mine = {}
          THEN /\ resp' = [op |-> "leave_circle", status |-> 404, token |-> token,
                           circle_id |-> circle_id]
               /\ UNCHANGED memberships
          ELSE /\ \E membership \in mine : memberships' = memberships \ {membership}
               /\ resp' = [op |-> "leave_circle", status |-> 200, token |-> token,
                           circle_id |-> circle_id]
       /\ UNCHANGED <<runs, next_run_id, user_stats, step_entries, now, weights,
                      next_entry_id, user_goals, users, circles, next_circle_id, joins, weekly_plans, creates>>

\* the leaderboard entry of a member of get_circle_details
MemberStats(db_runs, user, current_user, now_) ==
    LET user_runs == {r \in db_runs : r.user_id = user.id /\ r.completed_at >= min_date}
        monthly_runs == {r \in user_runs : r.completed_at >= MonthStartOf(now_)}
    IN [user_id |-> user.id, handle |-> user.handle,
        total_runs |-> Cardinality(user_runs), total_km |-> SumKm(user_runs),
        monthly_km |-> SumKm(monthly_runs), monthly_runs |-> Cardinality(monthly_runs),
        is_you |-> user.id = current_user]

RECURSIVE Leaderboard(_, _, _, _, _)
\* members.sort(key=monthly_km, reverse=True) of the entries taken in
\* membership order: the sort is stable
Leaderboard(member_rows, db_users, db_runs, current_user, now_) ==
    LET known == {m \in member_rows : \E u \in db_users : u.id = m.user_id}
        km(m) == MemberStats(db_runs, UserOf(db_users, m.user_id), current_user, now_).monthly_km
        top == CHOOSE m \in known :
                   \A o \in known : km(o) < km(m) \/ (km(o) = km(m) /\ m.id <= o.id)
    IN IF known = {} THEN <<>>
       ELSE <<MemberStats(db_runs, UserOf(db_users, top.user_id), current_user, now_)>>
            \o Leaderboard(known \ {top}, db_users, db_runs, current_user, now_)

\* GET /circles/{circle_id}; the rank of a member is its place in members
GetCircleDetails(token, circle_id) ==
    LET current_user == get_current_user(token, users, now)
        found == {c \in circles : c.id = circle_id}
        circle == CHOOSE c \in found : TRUE
        members == Leaderboard(MembersOf(memberships, circle_id), users, runs,
                               current_user, now)
    IN /\ IF current_user = None
          THEN resp' = NotAuthenticated("get_circle_details", token)
          ELSE IF MembershipsOf(memberships, circle_id, current_user) = {}
          THEN resp' = [op |-> "get_circle_details", status |-> 403, token |-> token,
                        circle_id |-> circle_id]
          ELSE IF found = {}
          THEN resp' = [op |-> "get_circle_details", status |-> 404, token |-> token,
                        circle_id |-> circle_id]
          ELSE resp' = [op |-> "get_circle_details", status |-> 200, token |-> token,
                        circle_id |-> circle_id,
                        body |-> [id |-> circle.id, invite_code |-> circle.invite_code,
                                  member_count |-> Len(members), members |-> members,
                                  created_by |-> circle.created_by]]
       /\ UNCHANGED <<runs, next_run_id, user_stats, step_entries, now, other_tables>>

---------------------------------------------------------------------------
(* Weight and step entries, main.py and weight.py.  An absent request      *)
(* field is <<>>.                                                          *)

\* POST /weights
CreateWeight(caller, weight_lbs, recorded_at) ==
    /\ next_entry_id.weights <= MaxEntries
    /\ IF weight_lbs = <<>> \/ weight_lbs[1] <= 0
       THEN /\ resp' = [op |-> "create_weight", status |-> 400, user_id |-> caller]
            /\ UNCHANGED <<weights, next_entry_id>>
       ELSE LET entry == [id |-> next_entry_id.weights, user_id |-> caller,
                          weight_lbs |-> weight_lbs[1],
                          recorded_at |-> IF recorded_at # <<>> THEN recorded_at[1] ELSE now]
            IN /\ weights' = weights \cup {entry}
               /\ next_entry_id' = [next_entry_id EXCEPT !.weights = @ + 1]
               /\ resp' = [op |-> "create_weight", status |-> 200, user_id |-> caller,
                           body |-> entry]
    /\ UNCHANGED <<runs, next_run_id, user_stats, step_entries, now, user_goals, users,
                   circles, memberships, next_circle_id, joins, weekly_plans, creates>>

\* weight.delete_weight_entry: the table left and whether a row was deleted
delete_weight_entry(db_weights, weight_id) ==
    LET entry == {w \in db_weights : w.id = weight_id}
    IN <<db_weights \ entry, entry # {}>>

\* DELETE /weights/{weight_id}; token is the bearer token the request carries,
\* which the handler does not ask for
DeleteWeight(token, weight_id) ==
    /\ weights' = delete_weight_entry(weights, weight_id)[1]
    /\ resp' = [op |-> "delete_weight", token |-> token, id |-> weight_id,
                status |-> IF delete_weight_entry(weights, weight_id)[2] THEN 200 ELSE 404]
    /\ UNCHANGED <<runs, next_run_id, user_stats, step_entries, now, next_entry_id,
                   user_goals, users, circles, memberships, next_circle_id, joins, weekly_plans, creates>>

\* GET /weights: weight.get_all_weights, the caller's entries
GetWeights(caller) ==
    /\ resp' = [op |-> "get_weights", status |-> 200, user_id |-> caller,
                body |-> {w \in weights : caller # None => w.user_id = caller}]
    /\ UNCHANGED <<runs, next_run_id, user_stats, step_entries, now, other_tables>>

\* POST /steps
CreateStepEntry(caller, step_count, recorded_date) ==
    /\ next_entry_id.step_entries <= MaxEntries
    /\ IF step_count = <<>> \/ step_count[1] <= 0
       THEN /\ resp' = [op |-> "create_step_entry", status |-> 400, user_id |-> caller]
            /\ UNCHANGED <<step_entries, next_entry_id>>
       ELSE LET entry == [id |-> next_entry_id.step_entries, user_id |-> caller,
                          step_count |-> step_count[1],
                          recorded_date |-> IF recorded_date # <<>>
                                            THEN recorded_date[1] ELSE now]
            IN /\ step_entries' = step_entries \cup {entry}
               /\ next_entry_id' = [next_entry_id EXCEPT !.step_entries = @ + 1]
               /\ resp' = [op |-> "create_step_entry", status |-> 200, user_id |-> caller,
                           body |-> entry]
    /\ UNCHANGED <<runs, next_run_id, user_stats, weights, now, user_goals, users,
                   circles, memberships, next_circle_id, joins, weekly_plans, creates>>

\* DELETE /steps/{entry_id}; token as in DeleteWeight
DeleteStepEntry(token, entry_id) ==
    LET entry == {e \in step_entries : e.id = entry_id}
    IN /\ step_entries' = step_entries \ entry
       /\ resp' = [op |-> "delete_step_entry", token |-> token, id |-> entry_id,
                   status |-> IF entry # {} THEN 200 ELSE 404]
       /\ UNCHANGED <<runs, next_run_id, user_stats, weights, now, next_entry_id,
                      user_goals, users, circles, memberships, next_circle_id, joins, weekly_plans, creates>>

\* GET /steps: the caller's entries
GetStepEntries(caller) ==
    /\ resp' = [op |-> "get_step_entries", status |-> 200, user_id |-> caller,
                body |-> {e \in step_entries : caller # None => e.user_id = caller}]
    /\ UNCHANGED <<runs, next_run_id, user_stats, step_entries, now, other_tables>>

\* datetime(year, month, 1) as a day number, for the years 2025..2027
MonthStartDay(year, month) == (year - 2026) * 365 + MonthOffsets[month]

\* calendar.monthrange(year, month)[1]
LastDayOfMonth(month) == MonthOffsets[month + 1] - MonthOffsets[month]

\* date.day and date.year
DayOfMonth(d) == d - MonthStartOf(d) + 1
YearOf(d) == 2026 + (YearStartOf(d) \div 365)

\* the rows of a table whose timestamp lies in the month, of the user when
\* user_id is truthy
RowsOfMonth(rows, stamp, user_id, year, month) ==
    {r \in rows : /\ stamp[r] >= MonthStartDay(year, month)
                  /\ stamp[r] < MonthStartDay(year, month) + LastDayOfMonth(month)
                  /\ (user_id # None => r.user_id = user_id)}

\* best_streak of get_month_in_review: the longest run of consecutive days
\* with a run
BestDayStreak(run_dates) ==
    IF run_dates = {} THEN 0
    ELSE Max({k \in 1..Cardinality(run_dates) :
                 \E d \in run_dates : \A i \in 0..(k - 1) : (d - i) \in run_dates})

\* the review answered when no month is due
NoReview(now_) ==
    [should_show |-> FALSE, year |-> YearOf(now_), month |-> MonthOf(now_),
     total_runs |-> 0, total_km |-> 0, total_duration_seconds |-> 0,
     avg_pace |-> "0:00", outdoor_runs |-> 0, treadmill_runs |-> 0,
     runs_by_type |-> <<>>, total_step_days |-> 0, total_steps |-> 0,
     avg_daily_steps |-> 0, high_step_days |-> 0, start_weight |-> <<>>,
     end_weight |-> <<>>, weight_change |-> <<>>, best_streak_in_month |-> 0,
     monthly_km_goal |-> 0, monthly_km_achieved |-> 0, goal_percent |-> 0,
     goal_met |-> FALSE, km_vs_last_month |-> 0, runs_vs_last_month |-> 0]

\* the review of one month; goal_rows is what goals_query.first() returned,
\* {} or one row.  Entries of the same day are ordered by id.
ReviewOfMonth(db_runs, db_steps, db_weights, goal_rows, user_id, review_year, review_month) ==
    LET month_runs == RowsOfMonth(db_runs, [r \in db_runs |-> r.completed_at],
                                  user_id, review_year, review_month)
        total_km == SumKm(month_runs)
        total_duration == SumSeconds(month_runs)
        steps == RowsOfMonth(db_steps, [e \in db_steps |-> e.recorded_date],
                             user_id, review_year, review_month)
        total_steps == SumOver(steps, [e \in steps |-> e.step_count])
        month_weights == RowsOfMonth(db_weights, [w \in db_weights |-> w.recorded_at],
                                     user_id, review_year, review_month)
        Before(v, w) == v.recorded_at < w.recorded_at
                        \/ (v.recorded_at = w.recorded_at /\ v.id <= w.id)
        first_w == CHOOSE w \in month_weights : \A v \in month_weights : Before(w, v)
        last_w == CHOOSE w \in month_weights : \A v \in month_weights : Before(v, w)
        monthly_km_goal == IF goal_rows # {}
                           THEN (CHOOSE g \in goal_rows : TRUE).monthly_km_goal ELSE 80
        prev_month == IF review_month = 1 THEN 12 ELSE review_month - 1
        prev_year == IF review_month = 1 THEN review_year - 1 ELSE review_year
        prev_runs == RowsOfMonth(db_runs, [r \in db_runs |-> r.completed_at],
                                 user_id, prev_year, prev_month)
    IN [should_show |-> TRUE, year |-> review_year, month |-> review_month,
        total_runs |-> Cardinality(month_runs),
        total_km |-> total_km,
        total_duration_seconds |-> total_duration,
        avg_pace |-> IF total_km > 0 /\ total_duration > 0
                     THEN FormatMinSec(total_duration \div (60 * total_km),
                                       (total_duration \div total_km) % 60)
                     ELSE "0:00",
        outdoor_runs |-> Cardinality({r \in month_runs : r.category = "outdoor"}),
        treadmill_runs |-> Cardinality({r \in month_runs : r.category = "treadmill"}),
        runs_by_type |-> [t \in {r.run_type : r \in month_runs} |->
                             Cardinality({r \in month_runs : r.run_type = t})],
        total_step_days |-> Cardinality(steps),
        total_steps |-> total_steps,
        avg_daily_steps |-> IF steps # {} THEN total_steps \div Cardinality(steps) ELSE 0,
        high_step_days |-> Cardinality({e \in steps : e.step_count >= 10000}),
        start_weight |-> IF month_weights # {} THEN <<first_w.weight_lbs>> ELSE <<>>,
        end_weight |-> IF month_weights # {} THEN <<last_w.weight_lbs>> ELSE <<>>,
        weight_change |-> IF month_weights # {}
                          THEN <<last_w.weight_lbs - first_w.weight_lbs>> ELSE <<>>,
        best_streak_in_month |-> BestDayStreak({r.completed_at : r \in month_runs}),
        monthly_km_goal |-> monthly_km_goal,
        monthly_km_achieved |-> total_km,
        goal_percent |-> PercentTenths(total_km, monthly_km_goal),
        goal_met |-> total_km >= monthly_km_goal,
        km_vs_last_month |-> total_km - SumKm(prev_runs),
        runs_vs_last_month |-> Cardinality(month_runs) - Cardinality(prev_runs)]

\* crud.get_month_in_review; target_month and target_year are <<>> for None
get_month_in_review(db_runs, db_steps, db_weights, goal_rows, user_id, target_month, target_year, now_) ==
    IF target_month = <<>> \/ target_year = <<>>
    THEN IF DayOfMonth(now_) = LastDayOfMonth(MonthOf(now_))
         THEN ReviewOfMonth(db_runs, db_steps, db_weights, goal_rows, user_id,
                            YearOf(now_), MonthOf(now_))
         ELSE IF DayOfMonth(now_) <= 7
         THEN ReviewOfMonth(db_runs, db_steps, db_weights, goal_rows, user_id,
                            IF MonthOf(now_) = 1 THEN YearOf(now_) - 1 ELSE YearOf(now_),
                            IF MonthOf(now_) = 1 THEN 12 ELSE MonthOf(now_) - 1)
         ELSE NoReview(now_)
    ELSE ReviewOfMonth(db_runs, db_steps, db_weights, goal_rows, user_id,
                       target_year[1], target_month[1])

\* what goals_query.first() may return: a row of the user, any row when
\* user_id is None, {} when there is none
FirstGoals(db_goals, user_id) ==
    LET rows == IF user_id # None THEN GoalsOf(db_goals, user_id) ELSE db_goals
    IN IF rows = {} THEN {{}} ELSE {{g} : g \in rows}

\* a call of crud.get_month_in_review
CallGetMonthInReview(user_id, target_month, target_year) ==
    /\ \E goal_rows \in FirstGoals(user_goals, user_id) :
          resp' = [op |-> "get_month_in_review", user_id |-> user_id, status |-> 200,
                   target_month |-> target_month, target_year |-> target_year,
                   body |-> get_month_in_review(runs, step_entries, weights, goal_rows,
                                user_id, target_month, target_year, now)]
    /\ UNCHANGED <<runs, next_run_id, user_stats, step_entries, now, other_tables>>

---------------------------------------------------------------------------
(* Goals on drawn databases: the runs are any subset of GoalRunRows, which *)
(* holds runs of the current month, of an earlier month, of a later month  *)
(* and of December 2025; the steps and weights hold one entry before the   *)
(* epoch and entries after it.  Requests are made on day Today, on the     *)
(* second or on the last day of its month.                                 *)

GoalRun(id, user_id, run_type, completed_at) ==
    [id |-> id, user_id |-> user_id, run_type |-> run_type,
     duration_seconds |-> 1500 + 60 * id, distance_km |-> RUN_DISTANCES[run_type],
     completed_at |-> completed_at, category |-> "outdoor"]

GoalRunRows ==
    { GoalRun(1, 1, "21k", MonthStartOf(Today) + 2),
      GoalRun(2, 1, "10k", MonthStartOf(Today) - 12),
      GoalRun(3, 1, "21k", min_date - 12),
      GoalRun(4, 1, "15k", MonthStartOf(Today) + 32),
      GoalRun(5, 2, "21k", MonthStartOf(Today) + 3) }

GoalStepRows ==
    { [id |-> 1, user_id |-> 1, step_count |-> 12000, recorded_date |-> min_date - 10],
      [id |-> 2, user_id |-> 1, step_count |-> 8000, recorded_date |-> MonthStartOf(Today) + 1],
      [id |-> 3, user_id |-> 2, step_count |-> 21000, recorded_date |-> MonthStartOf(Today) + 1] }

GoalWeightRows ==
    { [id |-> 1, user_id |-> 1, weight_lbs |-> 209, recorded_at |-> min_date - 10],
      [id |-> 2, user_id |-> 1, weight_lbs |-> 205, recorded_at |-> MonthStartOf(Today) + 1],
      [id |-> 3, user_id |-> 1, weight_lbs |-> 203, recorded_at |-> MonthStartOf(Today) + 4] }

GoalNows ==
    { Today, MonthStartOf(Today) + 1,
      MonthStartOf(Today) + LastDayOfMonth(MonthOf(Today)) - 1 }

GoalTargets == {<<>>, <<0>>, <<20>>, <<30>>}

GoalsData(yearly, monthly) == [yearly_km_goal |-> yearly, monthly_km_goal |-> monthly]

SetGoalsInputs == { GoalsData(<<>>, <<20>>), GoalsData(<<30>>, <<>>), GoalsData(<<>>, <<0>>) }

\* the months a review is asked for: December 2025 and the months up to now
ReviewTargets ==
    { <<<<>>, <<>>>>, <<<<12>>, <<2025>>>>, <<<<MonthOf(Today)>>, <<YearOf(Today)>>>>,
      <<<<MonthOf(Today)>>, <<>>>> }

InitGoals ==
    /\ runs \in SUBSET GoalRunRows
    /\ next_run_id = Cardinality(GoalRunRows) + 1
    /\ user_stats = <<>>
    /\ step_entries = GoalStepRows
    /\ now \in GoalNows
    /\ resp = [op |-> "none"]
    /\ weights = GoalWeightRows
    /\ next_entry_id = [weights |-> 4, step_entries |-> 4]
    /\ user_goals = {}
    /\ users = {UserRow(u) : u \in Users}
    /\ circles = {}
    /\ memberships = {}
    /\ next_circle_id = 1
    /\ joins = <<>>
    /\ weekly_plans = {}
    /\ creates = <<>>

NextGoals ==
    \/ \E caller \in Callers : GetGoals(caller)
    \/ \E token \in {create_access_token(1, now), NoToken}, goals_data \in SetGoalsInputs :
          SetUserGoals(token, goals_data)
    \/ \E token \in {create_access_token(1, now), NoToken} : GetUserGoals(token)
    \/ \E caller \in Callers : GetAchievements(caller)
    \/ \E caller \in Callers, target \in ReviewTargets :
          CallGetMonthInReview(caller, target[1], target[2])

SpecGoals == InitGoals /\ [][NextGoals]_vars

\* get_goals_progress called with every pair of targets on the drawn databases
NextGoalsProgress ==
    \E caller \in Callers, yearly \in GoalTargets, monthly \in GoalTargets :
        CallGetGoalsProgress(yearly, monthly, caller)

SpecGoalsProgress == InitGoals /\ [][NextGoalsProgress]_vars

---------------------------------------------------------------------------
(* Claims about goals and the month in review, checked under SpecGoals and *)
(* SpecGoalsProgress                                                       *)

\* the monthly target the user's figures are to use: the monthly_km_goal of
\* the user's UserGoals row, 100 km without one
MonthlyTargetOf(u) ==
    IF u # None /\ GoalsOf(user_goals, u) # {}
    THEN (CHOOSE g \in GoalsOf(user_goals, u) : TRUE).monthly_km_goal
    ELSE 100

\* C11: every figure of a user that depends on the monthly distance target
\* uses the user's monthly_km_goal when a UserGoals row exists and 100 km
\* otherwise: goals progress (goal_km, is_complete, monthly_goals_hit), the
\* monthly_goals_hit the achievement predicates see (monthly_goal_1 unlocked
\* iff one month reached the target), and the month in review
\* (monthly_km_goal, goal_percent, goal_met).
C11_SameMonthlyTarget ==
    LET u == resp.user_id
        target == MonthlyTargetOf(u)
    IN /\ (resp.op = "get_goals" /\ u # None) =>
             /\ resp.body.monthly.goal_km = target
             /\ resp.body.monthly.is_complete <=> resp.body.monthly.current_km >= target
             /\ resp.body.monthly_goals_hit = MonthlyGoalsHit(runs, target, u, now)
       /\ (resp.op = "get_achievements" /\ u # None) =>
             ("monthly_goal_1" \in UnlockedIds <=> MonthlyGoalsHit(runs, target, u, now) >= 1)
       /\ (resp.op = "get_month_in_review" /\ u # None /\ resp.body.should_show) =>
             /\ resp.body.monthly_km_goal = target
             /\ resp.body.goal_percent = PercentTenths(resp.body.total_km, target)
             /\ resp.body.goal_met <=> resp.body.total_km >= target

\* the yearly block of the last get_goals_progress call and its target
ProgressAnswered == resp.op = "get_goals_progress"

\* C12, first part: the yearly percent is 0 for a target of 0 or less, and
\* for a positive target it lies in 0..100, is 100 * yearly_km / target
\* rounded to one decimal while yearly_km is below the target, and 100 at and
\* above it
YearlyPercentIsClampedRatio ==
    ProgressAnswered =>
        LET yearly == resp.body.yearly
        IN /\ yearly.percent \in 0..1000
           /\ yearly.goal_km <= 0 => yearly.percent = 0
           /\ (yearly.goal_km > 0 /\ yearly.current_km < yearly.goal_km) =>
                 /\ 2 * (yearly.percent * yearly.goal_km - 1000 * yearly.current_km)
                       <= yearly.goal_km
                 /\ 2 * (1000 * yearly.current_km - yearly.percent * yearly.goal_km)
                       <= yearly.goal_km

\* C12 (as claimed): the yearly percent is min(100, 100 * yearly_km / target)
\* for target > 0 and 0 for target = 0, within 0..100, and 100 whenever
\* yearly_km meets or exceeds the target.
C12_YearlyPercentAsClaimed ==
    /\ YearlyPercentIsClampedRatio
    /\ ProgressAnswered =>
          (resp.body.yearly.current_km >= resp.body.yearly.goal_km
              => resp.body.yearly.percent = 1000)

\* C12 (amended): the yearly percent is min(100, 100 * yearly_km / target)
\* for target > 0 and 0 otherwise, within 0..100, and 100 whenever the target
\* is positive and yearly_km meets or exceeds it.
C12_YearlyPercent ==
    /\ YearlyPercentIsClampedRatio
    /\ ProgressAnswered =>
          ((resp.body.yearly.goal_km > 0
            /\ resp.body.yearly.current_km >= resp.body.yearly.goal_km)
              => resp.body.yearly.percent = 1000)

\* C12 witness: a call whose yearly distance exceeds a positive target
C12_Witness ==
    /\ ProgressAnswered
    /\ resp.yearly_goal = <<30>>
    /\ resp.body.yearly.current_km > 30
    /\ resp.body.yearly.percent = 1000

\* the caller's runs of the current calendar month
RunsOfThisMonth(u) ==
    {r \in runs : /\ u # None => r.user_id = u
                  /\ r.completed_at >= MonthStartOf(now)
                  /\ r.completed_at < MonthStartOf(now) + LastDayOfMonth(MonthOf(now))}

\* C13: the monthly current_km of get_goals_progress is the distance of
\* exactly the caller's runs completed on or after the first day of the
\* current month and before the first day of the next, and is_complete holds
\* iff that sum reaches the monthly target.
C13_MonthlySumOfCurrentMonth ==
    ProgressAnswered =>
        /\ resp.body.monthly.current_km = SumKm(RunsOfThisMonth(resp.user_id))
        /\ resp.body.monthly.is_complete
              <=> SumKm(RunsOfThisMonth(resp.user_id)) >= resp.body.monthly.goal_km

\* the rows of a table dated on or after the tracking epoch
SinceEpoch(rows, stamp) == {r \in rows : stamp[r] >= min_date}

RunsSinceEpoch == SinceEpoch(runs, [r \in runs |-> r.completed_at])
StepsSinceEpoch == SinceEpoch(step_entries, [e \in step_entries |-> e.recorded_date])
WeightsSinceEpoch == SinceEpoch(weights, [w \in weights |-> w.recorded_at])

\* C14: no row dated before the epoch contributes to a date-windowed
\* aggregation: goals progress and streaks of every caller are what they are
\* on the database without those rows, and so is every month in review
\* answered, a review of an explicit target month included.
C14_EpochFilter ==
    /\ \A u \in Callers :
          /\ get_goals_progress(runs, <<>>, <<>>, u, now)
                = get_goals_progress(RunsSinceEpoch, <<>>, <<>>, u, now)
          /\ calculate_streaks(runs, u, now) = calculate_streaks(RunsSinceEpoch, u, now)
    /\ resp.op = "get_month_in_review" =>
          \E goal_rows \in FirstGoals(user_goals, resp.user_id) :
              resp.body = get_month_in_review(RunsSinceEpoch, StepsSinceEpoch,
                              WeightsSinceEpoch, goal_rows, resp.user_id,
                              resp.target_month, resp.target_year, now)

---------------------------------------------------------------------------
(* Circles, one request at a time.  Eleven users are signed up.  The       *)
(* database starts empty, or with the circle user 2 created and users      *)
(* 3..10 joined: one place left.  Users 1 and 11 make the requests.        *)

CircleUsers == 1..(MAX_CIRCLE_MEMBERS + 1)

InviteCodes == {"AAAA", "BBBB"}

\* the circle of user 2 with the members 2..MAX_CIRCLE_MEMBERS
SeededCircle ==
    [id |-> 1, name |-> <<"Z", "R">>, invite_code |-> "AAAA", created_by |-> 2]

SeededMemberships ==
    {[id |-> u - 1, circle_id |-> 1, user_id |-> u] : u \in 2..MAX_CIRCLE_MEMBERS}

CircleTokens == {create_access_token(1, Today), create_access_token(11, Today), NoToken}

CircleNames == {<<"Z">>, <<"Z", "R">>}

JoinCodes == {"", " aaaa ", "BBBB", "ZZZZ"}

CircleIds == 1..(MaxCircles + 2)

InitCircle ==
    /\ runs = {}
    /\ next_run_id = 1
    /\ user_stats = <<>>
    /\ step_entries = {}
    /\ now = Today
    /\ resp = [op |-> "none"]
    /\ weights = {}
    /\ next_entry_id = [weights |-> 1, step_entries |-> 1]
    /\ user_goals = {}
    /\ users = {UserRow(u) : u \in CircleUsers}
    /\ \/ circles = {} /\ memberships = {} /\ next_circle_id = 1
       \/ circles = {SeededCircle} /\ memberships = SeededMemberships /\ next_circle_id = 2
    /\ joins = <<>>
    /\ weekly_plans = {}
    /\ creates = <<>>

NextCircle ==
    \/ \E token \in CircleTokens, name \in CircleNames, code \in InviteCodes :
          CreateCircle(token, name, code)
    \/ \E token \in CircleTokens : GetMyCircles(token)
    \/ \E token \in CircleTokens, code \in JoinCodes : JoinCircle(token, code)
    \/ \E token \in CircleTokens, circle_id \in CircleIds : LeaveCircle(token, circle_id)
    \/ \E token \in CircleTokens, circle_id \in CircleIds : GetCircleDetails(token, circle_id)

SpecCircle == InitCircle /\ [][NextCircle]_vars

---------------------------------------------------------------------------
(* Claims about circles *)

\* every circle has at most 10 memberships and no user two in one circle
CircleCapAndNoDuplicates ==
    \A c \in circles :
        /\ Cardinality(MembersOf(memberships, c.id)) <= MAX_CIRCLE_MEMBERS
        /\ \A m, o \in MembersOf(memberships, c.id) : m.user_id = o.user_id => m = o

\* the user a token of the requests names
TokenUser(token) == get_current_user(token, users, now)

\* C15: after any sequence of create, join and leave requests handled one at
\* a time every circle has at most 10 memberships and no user two memberships
\* in one circle; a join against a circle of 10 and a join by a member are
\* rejected and leave the memberships unchanged, and a successful join adds
\* exactly one membership to the circle joined and none elsewhere.
C15_CircleCapSequential ==
    /\ []CircleCapAndNoDuplicates
    /\ [][resp'.op = "join_circle" =>
            /\ resp'.status # 200 => memberships' = memberships
            /\ (resp'.status = 400 /\ resp'.token.given /\ "circle_id" \in DOMAIN resp') =>
                  \/ Cardinality(MembersOf(memberships, resp'.circle_id)) = MAX_CIRCLE_MEMBERS
                  \/ MembershipsOf(memberships, resp'.circle_id, TokenUser(resp'.token)) # {}
            /\ resp'.status = 200 =>
                  /\ Cardinality(MembersOf(memberships', resp'.circle_id))
                        = Cardinality(MembersOf(memberships, resp'.circle_id)) + 1
                  /\ Cardinality(memberships') = Cardinality(memberships) + 1
                  /\ Cardinality(MembersOf(memberships, resp'.circle_id)) < MAX_CIRCLE_MEMBERS
                  /\ MembershipsOf(memberships, resp'.circle_id, TokenUser(resp'.token)) = {}]_vars

\* C15 witness: the eleventh join was rejected by a circle of 10
C15_Witness ==
    /\ resp.op = "join_circle"
    /\ resp.status = 400
    /\ "detail" \in DOMAIN resp
    /\ resp.detail = "full"
    /\ Cardinality(MembersOf(memberships, resp.circle_id)) = MAX_CIRCLE_MEMBERS

---------------------------------------------------------------------------
(* Join requests handled at once.  FastAPI runs the handler of each        *)
(* request in its own thread with its own session; nothing but the         *)
(* database orders them.  A request is a record of joins; every query of   *)
(* join_circle is one step and reads what is committed at that moment, and *)
(* the insert is committed in the last step.  The database starts with     *)
(* the seeded circle of nine members.                                      *)

RaceCodes == {" aaaa ", "ZZZZ"}

\* the request i of joins with its fields changed
JoinsWith(i, pc, circle_id, status) ==
    [joins EXCEPT ![i] = [@ EXCEPT !.pc = pc, !.circle_id = circle_id, !.status = status]]

\* a join request arrives: require_auth and the invite_code of the body
JoinBegin(token, raw_code) ==
    LET current_user == get_current_user(token, users, now)
        invite_code == UpperStrip(raw_code)
        request == [token |-> token, current_user |-> current_user,
                    invite_code |-> invite_code, circle_id |-> 0,
                    pc |-> "find_circle", status |-> 0]
    IN /\ Len(joins) < MaxJoins
       /\ joins' = Append(joins,
                     IF current_user = None
                     THEN [request EXCEPT !.pc = "done", !.status = 401]
                     ELSE IF invite_code = ""
                     THEN [request EXCEPT !.pc = "done", !.status = 400]
                     ELSE request)
       /\ UNCHANGED <<runs, next_run_id, user_stats, step_entries, now, resp, weights,
                      next_entry_id, user_goals, users, circles, memberships,
                      next_circle_id,
                      weekly_plans, creates>>

\* circle = db.query(Circle).filter(Circle.invite_code == invite_code).first()
JoinFindCircle(i) ==
    LET found == {c \in circles : c.invite_code = joins[i].invite_code}
    IN /\ joins[i].pc = "find_circle"
       /\ joins' = IF found = {} THEN JoinsWith(i, "done", 0, 404)
                   ELSE JoinsWith(i, "check_existing", (CHOOSE c \in found : TRUE).id, 0)
       /\ UNCHANGED <<runs, next_run_id, user_stats, step_entries, now, resp, weights,
                      next_entry_id, user_goals, users, circles, memberships,
                      next_circle_id,
                      weekly_plans, creates>>

\* existing = db.query(CircleMembership).filter(...).first()
JoinCheckExisting(i) ==
    /\ joins[i].pc = "check_existing"
    /\ joins' = IF MembershipsOf(memberships, joins[i].circle_id, joins[i].current_user) # {}
                THEN JoinsWith(i, "done", joins[i].circle_id, 400)
                ELSE JoinsWith(i, "check_count", joins[i].circle_id, 0)
    /\ UNCHANGED <<runs, next_run_id, user_stats, step_entries, now, resp, weights,
                   next_entry_id, user_goals, users, circles, memberships, next_circle_id,
                      weekly_plans, creates>>

\* member_count = db.query(CircleMembership).filter(...).count()
JoinCheckCount(i) ==
    /\ joins[i].pc = "check_count"
    /\ joins' = IF Cardinality(MembersOf(memberships, joins[i].circle_id))
                      >= MAX_CIRCLE_MEMBERS
                THEN JoinsWith(i, "done", joins[i].circle_id, 400)
                ELSE JoinsWith(i, "insert", joins[i].circle_id, 0)
    /\ UNCHANGED <<runs, next_run_id, user_stats, step_entries, now, resp, weights,
                   next_entry_id, user_goals, users, circles, memberships, next_circle_id,
                      weekly_plans, creates>>

\* db.add(membership); db.commit().  Whether the table rejects a second row
\* of the same user and circle is not in the sources: both outcomes are
\* taken, the row stored and the commit failing with a 500.
JoinInsert(i) ==
    /\ joins[i].pc = "insert"
    /\ \/ /\ memberships' = AddMembership(memberships, joins[i].circle_id,
                                          joins[i].current_user)
          /\ joins' = JoinsWith(i, "done", joins[i].circle_id, 200)
       \/ /\ MembershipsOf(memberships, joins[i].circle_id, joins[i].current_user) # {}
          /\ memberships' = memberships
          /\ joins' = JoinsWith(i, "done", joins[i].circle_id, 500)
    /\ UNCHANGED <<runs, next_run_id, user_stats, step_entries, now, resp, weights,
                   next_entry_id, user_goals, users, circles, next_circle_id,
                      weekly_plans, creates>>

InitJoinRace ==
    /\ runs = {}
    /\ next_run_id = 1
    /\ user_stats = <<>>
    /\ step_entries = {}
    /\ now = Today
    /\ resp = [op |-> "none"]
    /\ weights = {}
    /\ next_entry_id = [weights |-> 1, step_entries |-> 1]
    /\ user_goals = {}
    /\ users = {UserRow(u) : u \in CircleUsers}
    /\ circles = {SeededCircle}
    /\ memberships = SeededMemberships
    /\ next_circle_id = 2
    /\ joins = <<>>
    /\ weekly_plans = {}
    /\ creates = <<>>

NextJoinRace ==
    \/ \E token \in CircleTokens, code \in RaceCodes : JoinBegin(token, code)
    \/ \E i \in 1..Len(joins) : JoinFindCircle(i)
    \/ \E i \in 1..Len(joins) : JoinCheckExisting(i)
    \/ \E i \in 1..Len(joins) : JoinCheckCount(i)
    \/ \E i \in 1..Len(joins) : JoinInsert(i)

SpecJoinRace == InitJoinRace /\ [][NextJoinRace]_vars

\* C16: under every interleaving of the queries and inserts of join requests
\* handled at once, no circle has more than 10 memberships and no user has
\* two memberships in one circle.
C16_CircleCapConcurrent ==
    \A c \in circles :
        LET members == MembersOf(memberships, c.id)
        IN /\ Cardinality(members) <= MAX_CIRCLE_MEMBERS
           /\ Cardinality({m.user_id : m \in members}) = Cardinality(members)

---------------------------------------------------------------------------
(* Requests by id.  The database holds one run, one weight entry and one   *)
(* step entry of user 1 and the seeded circle, of which user 1 is no       *)
(* member; every request is tried with an id that exists and with ids that *)
(* do not.                                                                 *)

\* GET /runs/{run_id}
GetRun(run_id) ==
    /\ LET found == {r \in runs : r.id = run_id}
       IN resp' = IF found = {}
                  THEN [op |-> "get_run", id |-> run_id, status |-> 404]
                  ELSE [op |-> "get_run", id |-> run_id, status |-> 200,
                        body |-> format_run_response(CHOOSE r \in found : TRUE, FALSE, <<>>)]
    /\ UNCHANGED <<runs, next_run_id, user_stats, step_entries, now, other_tables>>

ById == 1..2

InitById ==
    /\ runs = {GoalRun(1, 1, "10k", Today - 1)}
    /\ next_run_id = 2
    /\ user_stats = <<[total_runs |-> 1, total_km |-> 10]>>
    /\ step_entries = {[id |-> 1, user_id |-> 1, step_count |-> 12000,
                        recorded_date |-> Today - 1]}
    /\ now = Today
    /\ resp = [op |-> "none"]
    /\ weights = {[id |-> 1, user_id |-> 1, weight_lbs |-> 205, recorded_at |-> Today - 1]}
    /\ next_entry_id = [weights |-> 2, step_entries |-> 2]
    /\ user_goals = {}
    /\ users = {UserRow(u) : u \in CircleUsers}
    /\ circles = {SeededCircle}
    /\ memberships = SeededMemberships
    /\ next_circle_id = 2
    /\ joins = <<>>
    /\ weekly_plans = {}
    /\ creates = <<>>

NextById ==
    \/ \E run_id \in ById : GetRun(run_id)
    \/ \E run_id \in ById, upd \in PRUpdateInputs : UpdateRun(run_id, upd)
    \/ \E run_id \in ById : DeleteRun(run_id)
    \/ \E token \in CircleTokens, weight_id \in ById : DeleteWeight(token, weight_id)
    \/ \E token \in CircleTokens, entry_id \in ById : DeleteStepEntry(token, entry_id)
    \/ \E token \in CircleTokens, code \in JoinCodes : JoinCircle(token, code)
    \/ \E token \in CircleTokens, circle_id \in ById : LeaveCircle(token, circle_id)
    \/ \E token \in CircleTokens, circle_id \in ById : GetCircleDetails(token, circle_id)

SpecById == InitById /\ [][NextById]_vars

\* the stored rows
Tables == <<runs, step_entries, weights, user_goals, users, circles, memberships>>

\* C17: a request by run id, weight id, step-entry id, circle id or invite
\* code that matches no stored row is answered 404 and leaves the stored rows
\* unchanged (the circle requests being made with identity); so is the
\* detail of a circle id that does not exist.
C17_NotFound ==
    [][/\ (resp'.op = "get_run" /\ ~\E r \in runs : r.id = resp'.id) =>
              resp'.status = 404 /\ Tables' = Tables
       /\ (resp'.op \in {"update_run", "delete_run"} /\ resp'.status = 404) =>
              Tables' = Tables
       /\ (resp'.op = "delete_weight" /\ ~\E w \in weights : w.id = resp'.id) =>
              resp'.status = 404 /\ Tables' = Tables
       /\ (resp'.op = "delete_step_entry" /\ ~\E e \in step_entries : e.id = resp'.id) =>
              resp'.status = 404 /\ Tables' = Tables
       /\ (resp'.op = "join_circle" /\ TokenUser(resp'.token) # None
           /\ "circle_id" \notin DOMAIN resp' /\ resp'.status # 400) =>
              resp'.status = 404 /\ Tables' = Tables
       /\ (resp'.op \in {"leave_circle", "get_circle_details"}
           /\ TokenUser(resp'.token) # None
           /\ ~\E c \in circles : c.id = resp'.circle_id) =>
              resp'.status = 404 /\ Tables' = Tables]_vars

---------------------------------------------------------------------------
(* Identity: every handler that requires identity, and two that take it    *)
(* optionally, called with a good token of user 1 and with tokens that     *)
(* are missing, expired, tampered with, or name nobody                     *)

GoodToken == create_access_token(1, Today)

\* no token; issued eight days ago; signature broken; subject without a
\* user; no subject
BadTokens ==
    { NoToken,
      create_access_token(1, Today - ACCESS_TOKEN_EXPIRE_DAYS - 1),
      [GoodToken EXCEPT !.signed = FALSE],
      create_access_token(99, Today),
      create_access_token(0, Today) }

AuthTokens == {GoodToken} \cup BadTokens

HandlesTried == {"ab", " Zen_Runner "}

NextAuth ==
    \/ \E token \in AuthTokens : GetMe(token)
    \/ \E token \in AuthTokens : GetUserGoals(token)
    \/ \E token \in AuthTokens : SetUserGoals(token, GoalsData(<<>>, <<20>>))
    \/ \E token \in AuthTokens : CompleteOnboarding(token)
    \/ \E token \in AuthTokens, code \in InviteCodes : CreateCircle(token, <<"Z", "R">>, code)
    \/ \E token \in AuthTokens : GetMyCircles(token)
    \/ \E token \in AuthTokens, code \in InviteCodes : JoinCircle(token, code)
    \/ \E token \in AuthTokens : LeaveCircle(token, 1)
    \/ \E token \in AuthTokens : GetCircleDetails(token, 1)
    \/ \E token \in AuthTokens, handle \in HandlesTried : SetUserHandle(token, handle)
    \/ \E token \in AuthTokens : GetStats(get_current_user(token, users, now))
    \/ \E token \in AuthTokens : GetGoals(get_current_user(token, users, now))

SpecAuth == Init /\ [][NextAuth]_vars

\* the handlers behind require_auth
ProtectedOps ==
    {"get_me", "get_user_goals", "set_user_goals", "complete_onboarding",
     "create_circle", "get_my_circles", "join_circle", "leave_circle",
     "get_circle_details", "set_user_handle"}

\* C18: a missing, expired or tampered token, and a token whose subject is
\* no user's, resolve to no identity; a handler that requires identity then
\* answers 401 and changes no stored row, and a handler that takes identity
\* optionally answers as for an anonymous caller.
C18_BadTokenNoIdentity ==
    /\ [](\A token \in BadTokens : get_current_user(token, users, now) = None)
    /\ [][/\ (resp'.op \in ProtectedOps /\ TokenUser(resp'.token) = None) =>
                resp'.status = 401 /\ Tables' = Tables
          /\ (resp'.op \in ProtectedOps /\ TokenUser(resp'.token) # None) =>
                resp'.status # 401
          /\ resp'.op \in {"get_stats", "get_goals"} =>
                /\ resp'.status = 200
                /\ resp'.user_id \in {None, 1}
                /\ Tables' = Tables]_vars

\* C18 witness: a join with a tampered token was answered 401
C18_Witness ==
    /\ resp.op = "join_circle"
    /\ resp.status = 401
    /\ resp.token.given
    /\ ~resp.token.signed

---------------------------------------------------------------------------
(* The read handlers scoped to the caller: run list, streak progress and   *)
(* personal records (stats, goals and achievements are above)              *)

RECURSIVE NewestFirst(_)
\* order_by(Run.completed_at.desc()); rows of one completed_at in id order
NewestFirst(rows) ==
    IF rows = {} THEN <<>>
    ELSE LET first == CHOOSE r \in rows :
                 \A o \in rows : o.completed_at < r.completed_at
                                 \/ (o.completed_at = r.completed_at /\ r.id <= o.id)
         IN <<first>> \o NewestFirst(rows \ {first})

\* crud.get_runs; run_type is <<>> for None
get_runs(db_runs, skip, limit, run_type, user_id) ==
    LET of_user == {r \in db_runs : user_id # None => r.user_id = user_id}
        of_type == {r \in of_user : (run_type # <<>> /\ run_type # <<"">>)
                                       => r.run_type = run_type[1]}
        ordered == NewestFirst(of_type)
    IN SubSeq(ordered, skip + 1, Min({Len(ordered), skip + limit}))

\* GET /runs
GetRuns(caller, skip, limit, run_type) ==
    /\ LET found == get_runs(runs, skip, limit, run_type, caller)
       IN resp' = [op |-> "get_runs", user_id |-> caller, status |-> 200,
                   skip |-> skip, limit |-> limit, run_type |-> run_type,
                   body |-> [i \in 1..Len(found) |->
                                format_run_response(found[i], FALSE, <<>>)]]
    /\ UNCHANGED <<runs, next_run_id, user_stats, step_entries, now, other_tables>>

\* crud.get_weekly_streak_progress; the message is given by the two counts
get_weekly_streak_progress(db_runs, user_id, now_) ==
    LET week == get_week_boundaries_for_date(now_)
        week_runs == {r \in db_runs : /\ r.completed_at >= week[1]
                                      /\ r.completed_at <= week[2]
                                      /\ r.completed_at >= min_date
                                      /\ (user_id # None => r.user_id = user_id)}
        long_runs_completed == Cardinality({r \in week_runs : r.distance_km >= 10})
        short_runs_completed == Cardinality({r \in week_runs : r.distance_km < 10})
        streaks == calculate_streaks(db_runs, user_id, now_)
    IN [long_runs_completed |-> long_runs_completed, long_runs_needed |-> 1,
        short_runs_completed |-> short_runs_completed, short_runs_needed |-> 2,
        is_complete |-> long_runs_completed >= 1 /\ short_runs_completed >= 2,
        current_streak |-> streaks[1], longest_streak |-> streaks[2]]

\* GET /streak
GetStreakProgress(caller) ==
    /\ resp' = [op |-> "get_streak_progress", user_id |-> caller, status |-> 200,
                body |-> get_weekly_streak_progress(runs, caller, now)]
    /\ UNCHANGED <<runs, next_run_id, user_stats, step_entries, now, other_tables>>

\* mutant of get_personal_records: per run type the slowest in-scope run
get_personal_records_slowest(db_runs, user_id) ==
    [run_type \in DOMAIN RUN_DISTANCES |->
        LET candidates == {r \in db_runs : /\ r.run_type = run_type
                                           /\ r.completed_at >= min_date
                                           /\ (user_id # None => r.user_id = user_id)}
            fastest == CHOOSE r \in candidates :
                           \A o \in candidates :
                               r.duration_seconds > o.duration_seconds
                               \/ (r.duration_seconds = o.duration_seconds /\ r.id <= o.id)
        IN IF candidates = {} THEN <<>>
           ELSE <<[time |-> FormatMinSec(fastest.duration_seconds \div 60,
                                         fastest.duration_seconds % 60),
                   duration_seconds |-> fastest.duration_seconds,
                   pace |-> FormatMinSec(
                       fastest.duration_seconds \div (60 * RUN_DISTANCES[run_type]),
                       (fastest.duration_seconds \div RUN_DISTANCES[run_type]) % 60),
                   date |-> fastest.completed_at,
                   run_id |-> fastest.id]>>]

\* achievements.get_personal_records: per run type the fastest in-scope run
\* (of equal durations the one of lowest id), <<>> for None
get_personal_records(db_runs, user_id) ==
    [run_type \in DOMAIN RUN_DISTANCES |->
        LET candidates == {r \in db_runs : /\ r.run_type = run_type
                                           /\ r.completed_at >= min_date
                                           /\ (user_id # None => r.user_id = user_id)}
            fastest == CHOOSE r \in candidates :
                           \A o \in candidates :
                               r.duration_seconds < o.duration_seconds
                               \/ (r.duration_seconds = o.duration_seconds /\ r.id <= o.id)
        IN IF candidates = {} THEN <<>>
           ELSE <<[time |-> FormatMinSec(fastest.duration_seconds \div 60,
                                         fastest.duration_seconds % 60),
                   duration_seconds |-> fastest.duration_seconds,
                   pace |-> FormatMinSec(
                       fastest.duration_seconds \div (60 * RUN_DISTANCES[run_type]),
                       (fastest.duration_seconds \div RUN_DISTANCES[run_type]) % 60),
                   date |-> fastest.completed_at,
                   run_id |-> fastest.id]>>]

\* GET /personal-records
GetPersonalRecords(caller) ==
    /\ resp' = [op |-> "get_personal_records", user_id |-> caller, status |-> 200,
                body |-> get_personal_records(runs, caller)]
    /\ UNCHANGED <<runs, next_run_id, user_stats, step_entries, now, other_tables>>

---------------------------------------------------------------------------
(* Scoping on drawn databases: runs and step entries of user 1, of user 2  *)
(* and of nobody, in any combination                                       *)

ScopeRun(id, user_id, run_type, duration_seconds, completed_at) ==
    [id |-> id, user_id |-> user_id, run_type |-> run_type,
     duration_seconds |-> duration_seconds, distance_km |-> RUN_DISTANCES[run_type],
     completed_at |-> completed_at, category |-> "outdoor"]

ScopeRunRows ==
    { ScopeRun(1, 1, "10k", 3000, Today - 1),
      ScopeRun(2, 1, "5k", 1500, Today - 2),
      ScopeRun(3, 2, "10k", 2800, Today - 1),
      ScopeRun(4, 2, "3k", 900, Today),
      ScopeRun(5, None, "10k", 2700, Today - 1),
      ScopeRun(6, None, "21k", 7000, Today - 9) }

ScopeStepRows ==
    { [id |-> 1, user_id |-> 1, step_count |-> 21000, recorded_date |-> Today - 1],
      [id |-> 2, user_id |-> 2, step_count |-> 26000, recorded_date |-> Today - 1],
      [id |-> 3, user_id |-> None, step_count |-> 26000, recorded_date |-> Today - 2] }

InitScope ==
    /\ runs \in SUBSET ScopeRunRows
    /\ next_run_id = Cardinality(ScopeRunRows) + 1
    /\ user_stats = <<>>
    /\ step_entries \in SUBSET ScopeStepRows
    /\ now = Today
    /\ resp = [op |-> "none"]
    /\ OtherTablesEmpty

NextScope ==
    \/ \E caller \in Callers, skip \in 0..1, run_type \in {<<>>, <<"10k">>} :
          GetRuns(caller, skip, 2, run_type)
    \/ \E caller \in Callers : GetStats(caller)
    \/ \E caller \in Callers : GetStreakProgress(caller)
    \/ \E caller \in Callers : GetPersonalRecords(caller)
    \/ \E caller \in Callers : GetGoals(caller)
    \/ \E caller \in Callers : GetAchievements(caller)

SpecScope == InitScope /\ [][NextScope]_vars

\* the rows of a table owned by the user
OwnedBy(rows, u) == {r \in rows : r.user_id = u}

\* C19: what an authenticated caller A is answered by the run list, the stats
\* summary, the streak progress, the personal records, the goals progress and
\* the achievements is what A is answered on the database holding A's rows
\* only, so rows of other users and of nobody never change it; and the run
\* list holds runs of A only.
C19_OwnRowsOnly ==
    (resp.op # "none" /\ resp.user_id # None) =>
        LET A == resp.user_id
            own_runs == OwnedBy(runs, A)
            own_steps == OwnedBy(step_entries, A)
        IN /\ resp.op = "get_runs" =>
                 /\ resp.body = [i \in 1..Len(get_runs(own_runs, resp.skip, resp.limit,
                                                       resp.run_type, A)) |->
                                    format_run_response(
                                        get_runs(own_runs, resp.skip, resp.limit,
                                                 resp.run_type, A)[i], FALSE, <<>>)]
                 /\ \A i \in 1..Len(resp.body) :
                        \E r \in own_runs : r.id = resp.body[i].id
           /\ resp.op = "get_stats" =>
                 resp.body = get_stats_summary(own_runs, <<>>, A, now)
           /\ resp.op = "get_streak_progress" =>
                 resp.body = get_weekly_streak_progress(own_runs, A, now)
           /\ resp.op = "get_personal_records" =>
                 resp.body = get_personal_records(own_runs, A)
           /\ resp.op = "get_goals" =>
                 resp.body = get_goals_progress(own_runs, <<1000>>, <<100>>, A, now)
           /\ resp.op = "get_achievements" =>
                 resp.body = get_achievements(own_runs, own_steps,
                                 get_stats_summary(own_runs, <<>>, A, now), A, now)

\* C19 witness: user 1 asked for personal records while a faster 10k of
\* user 2 and a faster one of nobody are stored, and got the own run
C19_Witness ==
    /\ resp.op = "get_personal_records"
    /\ resp.user_id = 1
    /\ \E r \in runs : r.user_id = 2 /\ r.run_type = "10k"
    /\ \E r \in runs : r.user_id = None /\ r.run_type = "10k"
    /\ resp.body["10k"] # <<>>
    /\ resp.body["10k"][1].run_id = 1

---------------------------------------------------------------------------
(* Weight and step entries: logged by user 1, by user 2 and anonymously,   *)
(* deleted by id with the token of user 1, of user 2, or none              *)

EntryTokens == {create_access_token(1, Today), create_access_token(2, Today), NoToken}

EntryIds == 1..MaxEntries

NextEntries ==
    \/ \E caller \in Callers, weight_lbs \in {<<>>, <<200>>} :
          CreateWeight(caller, weight_lbs, <<>>)
    \/ \E token \in EntryTokens, weight_id \in EntryIds : DeleteWeight(token, weight_id)
    \/ \E caller \in Callers : GetWeights(caller)
    \/ \E caller \in Callers, step_count \in {<<>>, <<16000>>} :
          CreateStepEntry(caller, step_count, <<>>)
    \/ \E token \in EntryTokens, entry_id \in EntryIds : DeleteStepEntry(token, entry_id)
    \/ \E caller \in Callers : GetStepEntries(caller)

SpecEntries == Init /\ [][NextEntries]_vars

\* C20: a delete request for a weight entry or a step entry that is owned by
\* a user other than the one the request's token names, or that comes with
\* no valid token, leaves that entry stored.
C20_DeleteScopedToCaller ==
    [][/\ resp'.op = "delete_weight" =>
              \A w \in weights :
                  (w.id = resp'.id /\ w.user_id # None
                   /\ w.user_id # TokenUser(resp'.token)) => w \in weights'
       /\ resp'.op = "delete_step_entry" =>
              \A e \in step_entries :
                  (e.id = resp'.id /\ e.user_id # None
                   /\ e.user_id # TokenUser(resp'.token)) => e \in step_entries']_vars

---------------------------------------------------------------------------
(* The UserStats counters under requests handled one at a time             *)

\* <<total_runs, total_km>> of the UserStats row, zero while there is none
Counters(stats_rows) ==
    IF stats_rows = <<>> THEN <<0, 0>>
    ELSE <<stats_rows[1].total_runs, stats_rows[1].total_km>>

\* C21: with requests handled one at a time there is at most one UserStats
\* row and its total_runs is the number of successful run creations so far;
\* a successful create adds exactly 1 to total_runs and the distance of the
\* run it stored to total_km, and a refused create, a run update, a run
\* delete and a read leave both counters as they were.
C21_CountersFollowCreations ==
    /\ [](Len(user_stats) <= 1 /\ Counters(user_stats)[1] = next_run_id - 1)
    /\ [][IF resp'.op = "create_run" /\ resp'.status = 200
          THEN /\ Counters(user_stats')[1] = Counters(user_stats)[1] + 1
               /\ Counters(user_stats')[2] =
                      Counters(user_stats)[2] + resp'.body.distance_km
               /\ \E r \in runs' \ runs : r.distance_km = resp'.body.distance_km
          ELSE Counters(user_stats') = Counters(user_stats)]_vars

\* C21 witness: two runs of different distances were created and one was
\* deleted; the counters still hold both
C21_Witness ==
    /\ resp.op = "delete_run"
    /\ resp.status = 200
    /\ Cardinality(runs) = 1
    /\ Counters(user_stats)[1] = 2
    /\ Counters(user_stats)[2] > SumKm(runs)
    /\ Counters(user_stats)[2] # 2 * SumKm(runs)

---------------------------------------------------------------------------
(* Run creation and circle creation commit by commit.  crud.create_run     *)
(* commits the run and then, in update_stats_after_run, queries the        *)
(* UserStats row, inserts one if there is none, and commits the counters   *)
(* it computed from what it read; create_circle commits the circle and     *)
(* then the creator's membership.  A request between two commits is a      *)
(* record of creates.                                                      *)

\* the requests without request i
Drop(reqs, i) == [k \in 1..(Len(reqs) - 1) |-> IF k < i THEN reqs[k] ELSE reqs[k + 1]]

\* the request i of creates at another position, with what it read
CreatesWith(i, pc, row, read) ==
    [creates EXCEPT ![i] = [@ EXCEPT !.pc = pc, !.row = row, !.read = read]]

\* POST /runs up to the first commit: the run is stored
RunCommitted(caller, run) ==
    IF run.run_type \notin DOMAIN RUN_DISTANCES
    THEN /\ resp' = [op |-> "create_run", status |-> 400, request |-> run]
         /\ UNCHANGED <<runs, next_run_id, user_stats, step_entries, now, other_tables>>
    ELSE /\ next_run_id <= MaxRuns
         /\ LET db_run == NewRun(next_run_id, run, caller, now)
            IN /\ runs' = runs \cup {db_run}
               /\ next_run_id' = next_run_id + 1
               /\ creates' = Append(creates,
                      [op |-> "create_run", pc |-> "query_stats", db_run |-> db_run,
                       request |-> run, row |-> 0,
                       read |-> [total_runs |-> 0, total_km |-> 0]])
         /\ UNCHANGED <<user_stats, step_entries, now, resp, weights, next_entry_id,
                        user_goals, users, circles, memberships, next_circle_id, joins,
                        weekly_plans>>

\* get_or_create_stats: db.query(UserStats).first(), any row when there are
\* several; the counters are read from the row loaded here
StatsQueried(i) ==
    /\ creates[i].pc = "query_stats"
    /\ IF user_stats = <<>>
       THEN creates' = CreatesWith(i, "insert_stats", 0, creates[i].read)
       ELSE \E row \in 1..Len(user_stats) :
               creates' = CreatesWith(i, "update_stats", row, user_stats[row])
    /\ UNCHANGED <<runs, next_run_id, user_stats, step_entries, now, resp, weights,
                   next_entry_id, user_goals, users, circles, memberships,
                   next_circle_id, joins, weekly_plans>>

\* get_or_create_stats: the zero row is added, committed and refreshed
StatsInserted(i) ==
    /\ creates[i].pc = "insert_stats"
    /\ user_stats' = Append(user_stats, [total_runs |-> 0, total_km |-> 0])
    /\ creates' = CreatesWith(i, "update_stats", Len(user_stats) + 1,
                              [total_runs |-> 0, total_km |-> 0])
    /\ UNCHANGED <<runs, next_run_id, step_entries, now, resp, weights,
                   next_entry_id, user_goals, users, circles, memberships,
                   next_circle_id, joins, weekly_plans>>

\* mutant of StatsUpdated: the counters are incremented in the database, on
\* what the row holds when the update is executed
StatsUpdatedInPlace(i) ==
    /\ creates[i].pc = "update_stats"
    /\ user_stats' = [user_stats EXCEPT ![creates[i].row] =
                         [total_runs |-> @.total_runs + 1,
                          total_km |-> @.total_km + creates[i].db_run.distance_km]]
    /\ creates' = Drop(creates, i)
    /\ LET pb == check_personal_best(runs, creates[i].db_run)
       IN resp' = [op |-> "create_run", status |-> 200, request |-> creates[i].request,
                   body |-> format_run_response(creates[i].db_run, pb[1], pb[2])]
    /\ UNCHANGED <<runs, next_run_id, step_entries, now, weights,
                   next_entry_id, user_goals, users, circles, memberships,
                   next_circle_id, joins, weekly_plans>>

\* update_stats_after_run: the counters computed from the row as it was read
\* are written and committed; the handler returns the run
StatsUpdated(i) ==
    /\ creates[i].pc = "update_stats"
    /\ user_stats' = [user_stats EXCEPT ![creates[i].row] =
                         [total_runs |-> creates[i].read.total_runs + 1,
                          total_km |-> creates[i].read.total_km
                                       + creates[i].db_run.distance_km]]
    /\ creates' = Drop(creates, i)
    /\ LET pb == check_personal_best(runs, creates[i].db_run)
       IN resp' = [op |-> "create_run", status |-> 200, request |-> creates[i].request,
                   body |-> format_run_response(creates[i].db_run, pb[1], pb[2])]
    /\ UNCHANGED <<runs, next_run_id, step_entries, now, weights,
                   next_entry_id, user_goals, users, circles, memberships,
                   next_circle_id, joins, weekly_plans>>

\* POST /circles up to the first commit: the circle is stored
CircleCommitted(token, name, invite_code) ==
    LET current_user == get_current_user(token, users, now)
    IN /\ Cardinality(circles) < MaxCircles
       /\ IF current_user = None
          THEN /\ resp' = NotAuthenticated("create_circle", token)
               /\ UNCHANGED <<circles, next_circle_id, creates>>
          ELSE IF Len(name) < 2
          THEN /\ resp' = [op |-> "create_circle", status |-> 400, token |-> token]
               /\ UNCHANGED <<circles, next_circle_id, creates>>
          ELSE IF \E c \in circles : c.invite_code = invite_code
          THEN /\ resp' = [op |-> "create_circle", status |-> 500, token |-> token]
               /\ UNCHANGED <<circles, next_circle_id, creates>>
          ELSE /\ circles' = circles \cup {[id |-> next_circle_id, name |-> name,
                                            invite_code |-> invite_code,
                                            created_by |-> current_user]}
               /\ next_circle_id' = next_circle_id + 1
               /\ creates' = Append(creates,
                      [op |-> "create_circle", pc |-> "insert_membership",
                       token |-> token, circle_id |-> next_circle_id,
                       invite_code |-> invite_code, current_user |-> current_user])
               /\ UNCHANGED resp
       /\ UNCHANGED <<runs, next_run_id, user_stats, step_entries, now, weights,
                      next_entry_id, user_goals, users, memberships, joins, weekly_plans>>

\* create_circle: the creator's membership is stored; the handler returns
MembershipCommitted(i) ==
    /\ creates[i].pc = "insert_membership"
    /\ memberships' = AddMembership(memberships, creates[i].circle_id,
                                    creates[i].current_user)
    /\ creates' = Drop(creates, i)
    /\ resp' = [op |-> "create_circle", status |-> 200, token |-> creates[i].token,
                body |-> [id |-> creates[i].circle_id,
                          invite_code |-> creates[i].invite_code,
                          created_by |-> creates[i].current_user, member_count |-> 1]]
    /\ UNCHANGED <<runs, next_run_id, user_stats, step_entries, now, weights,
                   next_entry_id, user_goals, users, circles, next_circle_id, joins,
                   weekly_plans>>

\* the statement a request is about to execute raises (the database refuses
\* the commit, the connection is lost): the request is answered 500 and
\* what it committed before stays
RequestFailed(i) ==
    /\ creates' = Drop(creates, i)
    /\ resp' = [op |-> creates[i].op, status |-> 500, failed_at |-> creates[i].pc]
    /\ UNCHANGED <<runs, next_run_id, user_stats, step_entries, now, weights,
                   next_entry_id, user_goals, users, circles, memberships,
                   next_circle_id, joins, weekly_plans>>

\* requests handled one at a time, each of which may fail between commits
CommitRunInputs ==
    {<<1, RunCreate("5k", 1500, <<>>)>>, <<2, RunCreate("10k", 3000, <<>>)>>,
     <<1, RunCreate("7k", 1500, <<>>)>>}

NextCommits ==
    \/ \E i \in CommitRunInputs : creates = <<>> /\ RunCommitted(i[1], i[2])
    \/ \E i \in 1..Len(creates) : StatsQueried(i)
    \/ \E i \in 1..Len(creates) : StatsInserted(i)
    \/ \E i \in 1..Len(creates) : StatsUpdated(i)
    \/ \E token \in {create_access_token(1, Today), NoToken}, name \in {"a", "club"},
          invite_code \in {"AAAA", "BBBB"} :
          creates = <<>> /\ CircleCommitted(token, name, invite_code)
    \/ \E i \in 1..Len(creates) : MembershipCommitted(i)
    \/ \E i \in 1..Len(creates) : RequestFailed(i)

SpecCommits == Init /\ [][NextCommits]_vars

\* C22: once every request has been answered, each stored run has been
\* counted in UserStats and each stored circle has its creator's membership:
\* a request that failed has left nothing behind.
C22_AllOrNothing ==
    creates = <<>> =>
        /\ Counters(user_stats)[1] = Cardinality(runs)
        /\ Counters(user_stats)[2] = SumKm(runs)
        /\ \A c \in circles : MembershipsOf(memberships, c.id, c.created_by) # {}

---------------------------------------------------------------------------
(* Weekly plans, crud.py and main.py.  The planned_runs column holds the   *)
(* JSON text of the list, kept here as its sequence of tokens: "[", the    *)
(* string literals separated by ",", and "]".                              *)

\* the tokens of the text
JsonPunct(c) == [kind |-> "punct", text |-> c]
JsonLiteral(str) == [kind |-> "string", text |-> str]

RECURSIVE JsonItems(_)
\* the literals of a list, separated by commas
JsonItems(list) ==
    IF list = <<>> THEN <<>>
    ELSE IF Len(list) = 1 THEN <<JsonLiteral(list[1])>>
    ELSE <<JsonLiteral(list[1]), JsonPunct(",")>> \o JsonItems(Tail(list))

\* json.dumps of a list of strings
json_dumps(list) == <<JsonPunct("[")>> \o JsonItems(list) \o <<JsonPunct("]")>>

RECURSIVE json_loads(_)
\* json.loads of the text of a list of strings
json_loads(text) ==
    IF text = <<>> THEN <<>>
    ELSE IF Head(text).kind = "punct" THEN json_loads(Tail(text))
    ELSE <<Head(text).text>> \o json_loads(Tail(text))

\* crud.get_weekly_plan: the rows .first() chooses from
get_weekly_plan(db_plans, week_id) == {p \in db_plans : p.week_id = week_id}

\* mutant of create_weekly_plan: an existing plan is kept as it is
create_weekly_plan_keep_existing(db_plans, plan, now_) ==
    IF get_weekly_plan(db_plans, plan.week_id) # {} THEN db_plans
    ELSE db_plans \cup {[id |-> Cardinality(db_plans) + 1, week_id |-> plan.week_id,
                         planned_runs |-> json_dumps(plan.planned_runs),
                         created_at |-> now_]}

\* crud.create_weekly_plan: the table after the upsert
create_weekly_plan(db_plans, plan, now_) ==
    IF get_weekly_plan(db_plans, plan.week_id) # {}
    THEN LET existing == CHOOSE p \in db_plans : p.week_id = plan.week_id
         IN (db_plans \ {existing})
            \cup {[existing EXCEPT !.planned_runs = json_dumps(plan.planned_runs)]}
    ELSE db_plans \cup {[id |-> Cardinality(db_plans) + 1, week_id |-> plan.week_id,
                         planned_runs |-> json_dumps(plan.planned_runs),
                         created_at |-> now_]}

\* main.format_plan_response
format_plan_response(plan) ==
    [id |-> plan.id, week_id |-> plan.week_id,
     planned_runs |-> json_loads(plan.planned_runs), created_at |-> plan.created_at]

\* POST /plans
CreateWeeklyPlan(plan) ==
    /\ IF \E k \in 1..Len(plan.planned_runs) :
              plan.planned_runs[k] \notin DOMAIN RUN_DISTANCES
       THEN /\ resp' = [op |-> "create_weekly_plan", status |-> 400, request |-> plan]
            /\ UNCHANGED weekly_plans
       ELSE /\ weekly_plans' = create_weekly_plan(weekly_plans, plan, now)
            /\ resp' = [op |-> "create_weekly_plan", status |-> 200, request |-> plan,
                        body |-> format_plan_response(
                            CHOOSE p \in create_weekly_plan(weekly_plans, plan, now) :
                                p.week_id = plan.week_id)]
    /\ UNCHANGED <<runs, next_run_id, user_stats, step_entries, now, weights,
                   next_entry_id, user_goals, users, circles, memberships,
                   next_circle_id, joins, creates>>

\* strftime("%W"): the week of the year, weeks starting on Monday, the days
\* before the first Monday being week 0
WeekOfYearMonday(d) == (d - YearStartOf(d) + 7 - weekday(d)) \div 7

\* crud.get_current_week_id: (now + 1 day).strftime("%Y-W%W")
get_current_week_id(now_) ==
    ToString(YearOf(now_ + 1)) \o "-W" \o Pad2(WeekOfYearMonday(now_ + 1))

\* GET /plans/{week_id}
GetWeeklyPlan(week_id) ==
    /\ IF get_weekly_plan(weekly_plans, week_id) = {}
       THEN resp' = [op |-> "get_weekly_plan", status |-> 404, week_id |-> week_id]
       ELSE \E plan \in get_weekly_plan(weekly_plans, week_id) :
               resp' = [op |-> "get_weekly_plan", status |-> 200, week_id |-> week_id,
                        body |-> format_plan_response(plan)]
    /\ UNCHANGED <<runs, next_run_id, user_stats, step_entries, now, other_tables>>

\* GET /plans/current
GetCurrentWeekPlan ==
    LET week_id == get_current_week_id(now)
    IN /\ IF get_weekly_plan(weekly_plans, week_id) = {}
          THEN resp' = [op |-> "get_current_week_plan", status |-> 404,
                        week_id |-> week_id]
          ELSE \E plan \in get_weekly_plan(weekly_plans, week_id) :
                  resp' = [op |-> "get_current_week_plan", status |-> 200,
                           week_id |-> week_id, body |-> format_plan_response(plan)]
       /\ UNCHANGED <<runs, next_run_id, user_stats, step_entries, now, other_tables>>

\* plans submitted: two weeks (the second the current one), lists that
\* differ in order only, a repeated label, the empty list, a stranger
PlanWeekIds == {"2026-W05", "2026-W06"}

PlannedRuns ==
    {<<>>, <<"3k", "10k">>, <<"10k", "3k">>, <<"3k", "3k", "5k">>, <<"3k", "7k">>}

WeeklyPlanCreate(week_id, planned_runs) ==
    [week_id |-> week_id, planned_runs |-> planned_runs]

NextPlans ==
    \/ \E week_id \in PlanWeekIds, planned_runs \in PlannedRuns :
          CreateWeeklyPlan(WeeklyPlanCreate(week_id, planned_runs))
    \/ \E week_id \in PlanWeekIds : GetWeeklyPlan(week_id)
    \/ GetCurrentWeekPlan

SpecPlans == Init /\ [][NextPlans]_vars

\* C23: there is at most one WeeklyPlan row per week_id; an accepted
\* submission leaves that week's row holding the submitted list in the
\* submitted order and every other week's row as it was, and changes nothing
\* at all when the row already held that list; a submission with a label
\* outside the distance table is answered 400 and changes nothing; a fetch
\* returns the list the week's row holds and changes nothing.
C23_PlanUpsert ==
    /\ [](\A p \in weekly_plans, q \in weekly_plans : p.week_id = q.week_id => p = q)
    /\ [][/\ (resp'.op = "create_weekly_plan" /\ resp'.status = 200) =>
                /\ \E p \in weekly_plans' :
                      /\ p.week_id = resp'.request.week_id
                      /\ json_loads(p.planned_runs) = resp'.request.planned_runs
                      /\ resp'.body.planned_runs = resp'.request.planned_runs
                /\ \A p \in weekly_plans :
                      p.week_id # resp'.request.week_id => p \in weekly_plans'
                /\ (\E p \in weekly_plans :
                       /\ p.week_id = resp'.request.week_id
                       /\ json_loads(p.planned_runs) = resp'.request.planned_runs)
                   => weekly_plans' = weekly_plans
          /\ (resp'.op = "create_weekly_plan"
              /\ \E k \in 1..Len(resp'.request.planned_runs) :
                     resp'.request.planned_runs[k] \notin DOMAIN RUN_DISTANCES) =>
                resp'.status = 400 /\ weekly_plans' = weekly_plans
          /\ (resp'.op \in {"get_weekly_plan", "get_current_week_plan"}) =>
                /\ weekly_plans' = weekly_plans
                /\ resp'.status = 200 =>
                      \E p \in weekly_plans :
                          /\ p.week_id = resp'.week_id
                          /\ resp'.body.planned_runs = json_loads(p.planned_runs)]_vars

\* C23 witness: the current week's plan was submitted, replaced by the same
\* labels in another order, and fetched: the fetch returns the later list
C23_Witness ==
    /\ resp.op = "get_current_week_plan"
    /\ resp.status = 200
    /\ resp.body.planned_runs = <<"10k", "3k">>
    /\ resp.body.id = 1
    /\ Cardinality(weekly_plans) = 2

---------------------------------------------------------------------------
(* Further claims about the statistics and the streak engine, checked      *)
(* under SpecStreak                                                        *)

\* C24: the statistics of a caller without in-scope runs report 0 runs, 0 km,
\* both streaks 0 and the average pace "0:00"; and whatever the runs, both
\* streak values are at least 0.
C24_ZeroRunsZeroStats ==
    StatsAnswered =>
        /\ InScopeRuns(resp.user_id) = {} =>
              /\ resp.body.total_runs = 0
              /\ resp.body.total_km = 0
              /\ resp.body.current_streak = 0
              /\ resp.body.longest_streak = 0
              /\ resp.body.average_pace = "0:00"
        /\ resp.body.current_streak >= 0
        /\ resp.body.longest_streak >= 0

\* C24 witness: user 1 asked for statistics having runs, all of them dated
\* before the epoch
C24_Witness ==
    /\ StatsAnswered
    /\ resp.user_id = 1
    /\ InScopeRuns(1) = {}
    /\ \E r \in runs : r.user_id = 1 /\ r.completed_at < min_date

\* the stored runs dated no later than the current week
RunsUpToThisWeek == {r \in runs : r.completed_at <= ThisWeek + 6}

\* C25: the current streak reported is the one computed without the runs
\* dated in weeks after the current week; in particular it is at least 2 when
\* the current week and the week before it both qualify.
C25_LaterRunsIgnored ==
    StatsAnswered =>
        /\ resp.body.current_streak =
               calculate_streaks(RunsUpToThisWeek, resp.user_id, now)[1]
        /\ (QualifyingWeek(resp.user_id, ThisWeek)
            /\ QualifyingWeek(resp.user_id, ThisWeek - 7)) =>
               resp.body.current_streak >= 2

\* C26: whatever the runs and the date, the current streak reported is no
\* longer than the longest streak reported.
C26_CurrentAtMostLongest ==
    StatsAnswered => resp.body.current_streak <= resp.body.longest_streak

---------------------------------------------------------------------------
(* The week identifier on drawn dates: the four weeks around each of the   *)
(* two changes of year, 2025/2026 and 2026/2027                            *)

WeekIdNows == (-14..14) \cup (351..379)

InitWeekId ==
    /\ runs = {}
    /\ next_run_id = 1
    /\ user_stats = <<>>
    /\ step_entries = {}
    /\ now \in WeekIdNows
    /\ resp = [op |-> "none"]
    /\ weights = {}
    /\ next_entry_id = [weights |-> 1, step_entries |-> 1]
    /\ user_goals = {}
    /\ users = {UserRow(u) : u \in Users}
    /\ circles = {}
    /\ memberships = {}
    /\ next_circle_id = 1
    /\ joins = <<>>
    /\ weekly_plans \in SUBSET {[id |-> 1, week_id |-> "2026-W00",
                                 planned_runs |-> json_dumps(<<"3k", "10k">>),
                                 created_at |-> min_date]}
    /\ creates = <<>>

NextWeekId == GetCurrentWeekPlan

SpecWeekId == InitWeekId /\ [][NextWeekId]_vars

\* C27: the identifier computed for now is the identifier of exactly the
\* dates of the Sunday-Saturday week of now: every date of that week has it,
\* and no date of another week has it, the weeks that span a change of year
\* included.
C27_WeekIdPerSundayWeek ==
    resp.op = "get_current_week_plan" =>
        \A d \in WeekIdNows :
            (WeekStart(d) = WeekStart(now)) <=> (get_current_week_id(d) = resp.week_id)

---------------------------------------------------------------------------
(* Personal records after run creations: "10k" runs of user 1 (fast, slow, *)
(* dated before the epoch), of user 2 and of an anonymous caller, created  *)
(* and deleted in any order, and the records asked for by any caller       *)

NextRecords ==
    \/ \E i \in PRCreateInputs : CreateRun(i[1], i[2])
    \/ \E run_id \in RunIds : DeleteRun(run_id)
    \/ \E caller \in Callers : GetPersonalRecords(caller)

SpecRecords == Init /\ [][NextRecords]_vars

\* the run a create request just answered has stored is flagged a personal
\* best, dated since the epoch, and owned by a user
FlaggedRunOfUser ==
    /\ resp.op = "create_run"
    /\ resp.status = 200
    /\ resp.body.is_personal_best
    /\ CreatedRun.completed_at >= min_date
    /\ CreatedRun.user_id # None

\* C28: when a user has created a run dated since the epoch that the response
\* flags is_personal_best, the personal records that user is given next name
\* that run for its run type: its id and its duration.
C28_FlaggedRunIsTheRecord ==
    [][(FlaggedRunOfUser
        /\ resp'.op = "get_personal_records"
        /\ resp'.user_id = CreatedRun.user_id) =>
           /\ resp'.body[resp.body.run_type] # <<>>
           /\ resp'.body[resp.body.run_type][1].run_id = resp.body.id
           /\ resp'.body[resp.body.run_type][1].duration_seconds
                  = resp.body.duration_seconds]_vars

\* C28 witness: user 1 was given the records, which name run 2, the faster
\* of two stored "10k" runs of user 1
C28_Witness ==
    /\ resp.op = "get_personal_records"
    /\ resp.user_id = 1
    /\ Cardinality({r \in runs : r.user_id = 1 /\ r.completed_at >= min_date}) = 2
    /\ resp.body["10k"] # <<>>
    /\ resp.body["10k"][1].run_id = 2
    /\ resp.body["10k"][1].duration_seconds = 1500

---------------------------------------------------------------------------
(* Run creations handled at the same time: up to MaxInFlight requests are  *)
(* between their commits at once, and the database orders the commits      *)

RaceRunInputs ==
    {<<1, RunCreate("5k", 1500, <<>>)>>, <<2, RunCreate("10k", 3000, <<>>)>>}

NextStatsRace ==
    \/ \E i \in RaceRunInputs : Len(creates) < MaxInFlight /\ RunCommitted(i[1], i[2])
    \/ \E i \in 1..Len(creates) : StatsQueried(i)
    \/ \E i \in 1..Len(creates) : StatsInserted(i)
    \/ \E i \in 1..Len(creates) : StatsUpdated(i)

SpecStatsRace == Init /\ [][NextStatsRace]_vars

\* C29: the counters a run creation writes are the ones it read plus its own
\* run, whatever the row holds by then, and a creation that found no row
\* inserts one, whatever has been inserted since; so creations handled at the
\* same time can leave total_runs below the number of runs created, and more
\* than one UserStats row.
C29_UnguardedReadModifyWrite ==
    [][/\ \A i \in 1..Len(creates) :
             (/\ creates[i].pc = "update_stats"
              /\ Len(creates') < Len(creates)
              /\ resp'.body.id = creates[i].db_run.id) =>
                 /\ user_stats'[creates[i].row].total_runs
                        = creates[i].read.total_runs + 1
                 /\ user_stats'[creates[i].row].total_km
                        = creates[i].read.total_km + creates[i].db_run.distance_km
       /\ \A i \in 1..Len(creates) :
             (/\ Len(creates') = Len(creates)
              /\ creates[i].pc = "insert_stats"
              /\ creates'[i].pc = "update_stats") =>
                 Len(user_stats') = Len(user_stats) + 1]_vars

\* C29 witness: every request has been answered, two runs are stored, and the
\* one UserStats row counts one of them
C29_Witness ==
    /\ creates = <<>>
    /\ Cardinality(runs) = 2
    /\ Len(user_stats) = 1
    /\ user_stats[1].total_runs = 1

\* every request has been answered, two runs are stored, and there are two
\* UserStats rows
C29_TwoRows ==
    /\ creates = <<>>
    /\ Cardinality(runs) = 2
    /\ Len(user_stats) = 2

---------------------------------------------------------------------------
(* days_remaining of get_goals_progress.  now is a day number; a timedelta *)
(* counts whole days, so the difference to a midnight is one day less at   *)
(* any time of day after midnight.                                         *)

\* (midnight_of_day - now).days
DaysUntil(day, now_, at_midnight) == IF at_midnight THEN day - now_ ELSE day - now_ - 1

\* days_left_in_month: up to datetime(now.year, now.month + 1, 1), or to
\* datetime(now.year, 1, 1) in December
days_left_in_month(now_, at_midnight) ==
    DaysUntil(IF MonthOf(now_) < 12
              THEN YearStartOf(now_) + MonthOffsets[MonthOf(now_) + 1]
              ELSE YearStartOf(now_),
              now_, at_midnight)

\* days_left_in_year: up to datetime(2027, 1, 1)
days_left_in_year(now_, at_midnight) == DaysUntil(365, now_, at_midnight)

\* a call of achievements.get_goals_progress at the time of day given: the
\* dict with its two days_remaining
CallGetGoalsProgressAt(user_id, at_midnight) ==
    /\ resp' = [op |-> "get_goals_progress_at", user_id |-> user_id, status |-> 200,
                at_midnight |-> at_midnight,
                body |-> get_goals_progress(runs, <<>>, <<>>, user_id, now),
                yearly_days_remaining |-> days_left_in_year(now, at_midnight),
                monthly_days_remaining |-> days_left_in_month(now, at_midnight)]
    /\ UNCHANGED <<runs, next_run_id, user_stats, step_entries, now, other_tables>>

\* every day of the tracked year
TrackedYear == 0..364

InitDays ==
    /\ runs \in SUBSET {GoalRun(1, 1, "21k", 5)}
    /\ next_run_id = 2
    /\ user_stats = <<>>
    /\ step_entries = {}
    /\ now \in TrackedYear
    /\ resp = [op |-> "none"]
    /\ OtherTablesEmpty

NextDays == \E user_id \in {1}, at_midnight \in BOOLEAN :
                CallGetGoalsProgressAt(user_id, at_midnight)

SpecDays == InitDays /\ [][NextDays]_vars

\* C30: on every day of the tracked year the days_remaining of the year and
\* of the month are at least 0, and the month's is at most the number of days
\* of the current month.
C30_DaysRemainingInRange ==
    resp.op = "get_goals_progress_at" =>
        /\ resp.yearly_days_remaining >= 0
        /\ resp.monthly_days_remaining >= 0
        /\ resp.monthly_days_remaining <= LastDayOfMonth(MonthOf(now))

=============================================================================
